---- MODULE Spec2Model ----
(***************************************************************************)
(* Viewport capture/restore controller, relayout interpreter and drawing  *)
(* overlay of the chart viewer (src/src/App.tsx).                           *)
(*                                                                          *)
(* JavaScript values are tagged records [t, v]: t is the typeof/Array      *)
(* class the code tests, v a sequence of string tokens (one token for a    *)
(* scalar, the elements for an array).  A JavaScript object is either a    *)
(* function from its own keys to values (key order irrelevant) or, where   *)
(* the code iterates Object.entries/Object.keys, a sequence of             *)
(* [key, value] entries in insertion order.  A property key               *)
(* "<axis>.<field>" is the pair <<axis, field>>.                            *)
(*                                                                          *)
(* The rendering surface (Plotly behind react-plotly.js) is not part of the *)
(* source.  It is taken to apply a relayout command to the live layout and  *)
(* to emit the command's relayout event when the command completes, to      *)
(* drop the layout of a graph div when its Plot is unmounted, and to emit   *)
(* no relayout event for a restyle unless stated otherwise.                 *)
(*                                                                          *)
(* Not covered: the double-click resets that onInitialized registers, and   *)
(* CsvDashboard apart from its chart order (initializer and edit handlers). *)
(***************************************************************************)
EXTENDS Integers, Sequences, FiniteSets, TLC

\* ------------------------------------------------------------- bounds
NumCharts == 2   \* catalog entries in use
MaxTimers == 1   \* deferred saves pending at once
MaxKeys == 2     \* keys of a relayout event given to the interpreter alone
MaxSeries == 3   \* entries of a visibility array, series of a graph
MaxLines == 2    \* annotation lines stored over all charts
MaxPixel == 2    \* axis offsets, container origins and pixel positions of a projection
MaxClock == 2    \* milliseconds the clock advances
MaxStored == 3   \* entries of the dashboard order found in storage
MaxOrderLen == 3 \* entries of the dashboard order while it is edited

\* ------------------------------------------------------- JS values
JBool(b) == [t |-> "boolean", v |-> <<IF b THEN "true" ELSE "false">>]
JNum(s)  == [t |-> "number", v |-> <<s>>]
JStr(s)  == [t |-> "string", v |-> <<s>>]
JArr(s)  == [t |-> "array", v |-> s]
JNull    == [t |-> "null", v |-> <<>>]
JTrue    == JBool(TRUE)
JFalse   == JBool(FALSE)

IsArray(x) == x.t = "array"

Truthy(x) ==
  CASE x.t = "boolean" -> x.v[1] = "true"
    [] x.t = "number" -> x.v[1] # "0"
    [] x.t = "string" -> x.v[1] # ""
    [] x.t = "array" -> TRUE
    [] OTHER -> FALSE

\* An array element is kept as its token; a nested array is one opaque token.
Token(x) == IF IsArray(x) \/ x.v = <<>> THEN x.t ELSE x.v[1]

EmptyObj == <<>>

\* Object given as a sequence of entries: lookup by key.
HasKey(obj, k) == \E i \in 1..Len(obj) : obj[i].key = k
GetKey(obj, k) == obj[CHOOSE i \in 1..Len(obj) : obj[i].key = k].value
Keys(obj) == {obj[i].key : i \in 1..Len(obj)}
Entry(k, val) == [key |-> k, value |-> val]

\* ------------------------------------------------------------ catalog
CHARTS == <<"realisedcap", "sopr_sth", "topmodels">>
ChartIds == {CHARTS[i] : i \in 1..NumCharts}

\* --------------------------------------- extractZoomFromRelayoutEvent
\* Names over which the patterns are tried; XYAxisNames are those that
\* match [xy]axis\d* .
XYAxisNames == {"xaxis", "yaxis", "yaxis2", "yaxis3", "yaxis4"}
\* The axis pattern without its [xy] class: /^(\w*axis\d*)\./
MatchesAnyAxis(name) == TRUE

MatchesXYAxis(name) == name \in XYAxisNames

\* /^([xy]axis\d*)\.range\[(0|1)\]$/
rangeIndexMatch(key) == MatchesXYAxis(key[1]) /\ key[2] \in {"range[0]", "range[1]"}
RangeIndex(key) == IF key[2] = "range[0]" THEN 1 ELSE 2
\* /^([xy]axis\d*)\.range$/
rangeArrayMatch(key) == MatchesXYAxis(key[1]) /\ key[2] = "range"
\* /^([xy]axis\d*)\.autorange$/
autorangeMatch(key) == MatchesXYAxis(key[1]) /\ key[2] = "autorange"

\* result[axisName] = result[axisName] || {}
AxisOf(result, axisName) ==
  IF axisName \in DOMAIN result THEN result[axisName] ELSE EmptyObj

\* The autorange flag stored as given.
AutorangeAsGiven(value) == value

\* The current range taken afresh at every indexed key.
CurrentRangeFresh(axis) == <<"undefined", "undefined">>

\* axis.range ?? [undefined, undefined]
CurrentRange(axis) ==
  IF "range" \in DOMAIN axis THEN axis["range"].v ELSE <<"undefined", "undefined">>

\* Boolean(value)
BooleanOf(value) == JBool(Truthy(value))

\* One iteration of the for-loop over Object.entries(eventObj).
ExtractStep(result, e) ==
  LET key == e.key
      value == e.value
      axisName == key[1]
      axis == AxisOf(result, axisName)
  IN  IF rangeIndexMatch(key)
      THEN LET currentRange == [CurrentRange(axis) EXCEPT ![RangeIndex(key)] = Token(value)]
           IN  (axisName :> (("range" :> JArr(currentRange)) @@ ("autorange" :> JFalse) @@ axis))
               @@ result
      ELSE IF rangeArrayMatch(key) /\ IsArray(value) /\ Len(value.v) = 2
      THEN (axisName :> (("range" :> JArr(<<value.v[1], value.v[2]>>))
                          @@ ("autorange" :> JFalse) @@ axis)) @@ result
      ELSE IF autorangeMatch(key)
      THEN (axisName :> (("autorange" :> BooleanOf(value)) @@ axis)) @@ result
      ELSE result

RECURSIVE ExtractFrom(_, _, _)
ExtractFrom(result, eventObj, i) ==
  IF i > Len(eventObj) THEN result
  ELSE ExtractFrom(ExtractStep(result, eventObj[i]), eventObj, i + 1)

extractZoomFromRelayoutEvent(eventObj) == ExtractFrom(EmptyObj, eventObj, 1)

\* The test of the keys without the y of its pattern.
hasAxisPositionChangeAnyAxis(evt) ==
  \E k \in Keys(evt) : k[2] \in {"position", "side", "anchor", "overlaying", "domain"}

\* /^yaxis\d*\.(position|side|anchor|overlaying|domain)$/ on some key
YAxisPattern == {"yaxis", "yaxis2", "yaxis3", "yaxis4"}
hasAxisPositionChange(evt) ==
  \E k \in Keys(evt) :
     /\ k[1] \in YAxisPattern
     /\ k[2] \in {"position", "side", "anchor", "overlaying", "domain"}

\* ------------------------------------------------------ saveCurrentZoom
Has(obj, f) == f \in DOMAIN obj

\* A field kept when its value passes the typeof / Array.isArray test.
Field(obj, f, t) ==
  IF Has(obj, f) /\ obj[f].t = t THEN f :> obj[f] ELSE EmptyObj

\* Array.isArray(x) && x.length === 2
IsPair(x) == IsArray(x) /\ Len(x.v) = 2

captureYAxisProperties(yaxisObj) ==
  Field(yaxisObj, "range", "array") @@ Field(yaxisObj, "autorange", "boolean")
  @@ (IF Has(yaxisObj, "domain") /\ IsPair(yaxisObj["domain"])
      THEN "domain" :> yaxisObj["domain"] ELSE EmptyObj)
  @@ Field(yaxisObj, "position", "number")
  @@ Field(yaxisObj, "side", "string") @@ Field(yaxisObj, "anchor", "string")
  @@ Field(yaxisObj, "overlaying", "string") @@ Field(yaxisObj, "type", "string")

\* axisMap keys, in insertion order
YAxisOrder == <<"yaxis", "yaxis2", "yaxis3", "yaxis4">>
YAxisNames == {YAxisOrder[i] : i \in 1..Len(YAxisOrder)}

\* `yaxis${yaxisTag.slice(1)}` for the tags that occur
SliceTag(yaxisTag) ==
  CASE yaxisTag = "y2" -> "yaxis2"
    [] yaxisTag = "y3" -> "yaxis3"
    [] yaxisTag = "y4" -> "yaxis4"
    [] yaxisTag = "y5" -> "yaxis5"
    [] OTHER -> "yaxis"

MappedAxis(trace) ==
  IF ~Has(trace, "yaxis") \/ trace["yaxis"] = "" \/ trace["yaxis"] = "y"
  THEN "yaxis" ELSE SliceTag(trace["yaxis"])

\* usedYAxisNames holding every axis of the axis map.
usedYAxisNamesAll(data) == YAxisNames

usedYAxisNames(data) ==
  LET used == {MappedAxis(data[i]) : i \in 1..Len(data)}
  IN  IF used = {} THEN {"yaxis"} ELSE used

\* currentLayout.<axis> || fullLayout.<axis> || {}
LiveAxis(gd, axisName) ==
  IF Has(gd.layout, axisName) THEN gd.layout[axisName]
  ELSE IF Has(gd.fullLayout, axisName) THEN gd.fullLayout[axisName]
  ELSE EmptyObj

currentTraceVisibility(data) ==
  [i \in 1..Len(data) |-> IF Has(data[i], "visible") THEN data[i]["visible"] ELSE JTrue]

\* The zoomSettings object built from the live graph div.
zoomSettings(gd) ==
  LET xaxis == IF Has(gd.layout, "xaxis") THEN gd.layout["xaxis"] ELSE EmptyObj
      used == usedYAxisNames(gd.data)
      stored == {a \in YAxisNames : a \in used /\ DOMAIN LiveAxis(gd, a) # {}}
  IN  ("xaxis" :> (Field(xaxis, "range", "array") @@ Field(xaxis, "autorange", "boolean")))
      @@ ("traceVisibility" :> currentTraceVisibility(gd.data))
      @@ [a \in stored |-> captureYAxisProperties(LiveAxis(gd, a))]

\* setSavedZooms(prev => ({...prev, [selectedChartId]: zoomSettings}))
StoreZoom(prev, chartId, settings) == (chartId :> settings) @@ prev

\* ----------------------------------------------------- restoreSavedZoom
Opt(cond, k, val) == IF cond THEN <<Entry(k, val)>> ELSE <<>>

OrDefault(obj, f, dflt) == IF Has(obj, f) THEN obj[f] ELSE dflt

\* XSettings with the autorange test `if (settings.xaxis?.autorange)`.
XSettingsTruthy(savedZoom) ==
  LET x == IF Has(savedZoom, "xaxis") THEN savedZoom["xaxis"] ELSE EmptyObj
  IN  Opt(Has(x, "range") /\ Truthy(x["range"]), <<"xaxis", "range">>, x["range"])
      \o Opt(Has(x, "autorange") /\ Truthy(x["autorange"]), <<"xaxis", "autorange">>,
             x["autorange"])

XSettings(savedZoom) ==
  LET x == IF Has(savedZoom, "xaxis") THEN savedZoom["xaxis"] ELSE EmptyObj
  IN  Opt(Has(x, "range") /\ Truthy(x["range"]), <<"xaxis", "range">>, x["range"])
      \o Opt(Has(x, "autorange"), <<"xaxis", "autorange">>, x["autorange"])

PositionSettings(yAxisName, d) ==
  LET sideOk == Has(d, "side") /\ Truthy(d["side"])
      hasPositionRelated == Has(d, "position") \/ Has(d, "side") \/ Has(d, "anchor")
                            \/ Has(d, "overlaying")
  IN  IF yAxisName = "yaxis" \/ ~hasPositionRelated THEN <<>>
      ELSE IF Has(d, "position")
      THEN <<Entry(<<yAxisName, "position">>, d["position"]),
             Entry(<<yAxisName, "anchor">>, OrDefault(d, "anchor", JStr("free"))),
             Entry(<<yAxisName, "overlaying">>, OrDefault(d, "overlaying", JStr("y")))>>
           \o Opt(sideOk, <<yAxisName, "side">>, d["side"])
      ELSE Opt(sideOk, <<yAxisName, "side">>, d["side"])

\* YSettings restoring the type of every axis.
YSettingsTypeAll(yAxisName, d) ==
  Opt(Has(d, "range") /\ Truthy(d["range"]), <<yAxisName, "range">>, d["range"])
  \o Opt(Has(d, "autorange"), <<yAxisName, "autorange">>, d["autorange"])
  \o Opt(Has(d, "type") /\ Truthy(d["type"]), <<yAxisName, "type">>, d["type"])
  \o PositionSettings(yAxisName, d)

YSettings(yAxisName, d) ==
  Opt(Has(d, "range") /\ Truthy(d["range"]), <<yAxisName, "range">>, d["range"])
  \o Opt(Has(d, "autorange"), <<yAxisName, "autorange">>, d["autorange"])
  \o Opt(yAxisName = "yaxis" /\ Has(d, "type") /\ Truthy(d["type"]),
         <<yAxisName, "type">>, d["type"])
  \o PositionSettings(yAxisName, d)

\* Object.keys(savedZoom).filter(k => /^yaxis\d*$/.test(k)).forEach(...)
RECURSIVE YAxesSettings(_, _)
YAxesSettings(savedZoom, i) ==
  IF i > Len(YAxisOrder) THEN <<>>
  ELSE (IF Has(savedZoom, YAxisOrder[i])
        THEN YSettings(YAxisOrder[i], savedZoom[YAxisOrder[i]]) ELSE <<>>)
       \o YAxesSettings(savedZoom, i + 1)

\* restoreSettings built over the whole axis map, an axis the snapshot
\* lacks being reset to autorange.
restoreSettingsAllAxes(savedZoom) ==
  LET AxisOrAuto(axisName) ==
        IF Has(savedZoom, axisName) THEN savedZoom[axisName] ELSE ("autorange" :> JTrue)
  IN  XSettings(savedZoom)
      \o YSettings(YAxisOrder[1], AxisOrAuto(YAxisOrder[1]))
      \o YSettings(YAxisOrder[2], AxisOrAuto(YAxisOrder[2]))
      \o YSettings(YAxisOrder[3], AxisOrAuto(YAxisOrder[3]))
      \o YSettings(YAxisOrder[4], AxisOrAuto(YAxisOrder[4]))

restoreSettings(savedZoom) == XSettings(savedZoom) \o YAxesSettings(savedZoom, 1)

NoResult == [found |-> FALSE, layoutSettings |-> <<>>, traceVisibility |-> <<>>]

restoreSavedZoom(zooms, chartId) ==
  IF ~Has(zooms, chartId) THEN NoResult
  ELSE [found |-> TRUE,
        layoutSettings |-> restoreSettings(zooms[chartId]),
        traceVisibility |-> zooms[chartId]["traceVisibility"]]

\* await Plotly.relayout(graphDiv, secondPass): the keys of the second pass
\* /^(yaxis\d+)\.position$/ matches the secondary axes only
SecondaryAxes == {"yaxis2", "yaxis3", "yaxis4"}
IsPositionKey(k) == k[1] \in SecondaryAxes /\ k[2] = "position"

\* The second pass re-asserting the position only.
SecondPassPositionOnly(layoutSettings, axisName) ==
  Opt(HasKey(layoutSettings, <<axisName, "position">>), <<axisName, "position">>,
      GetKey(layoutSettings, <<axisName, "position">>))

SecondPassFor(layoutSettings, axisName) ==
  Opt(HasKey(layoutSettings, <<axisName, "position">>), <<axisName, "position">>,
      GetKey(layoutSettings, <<axisName, "position">>))
  \o Opt(HasKey(layoutSettings, <<axisName, "anchor">>), <<axisName, "anchor">>,
         GetKey(layoutSettings, <<axisName, "anchor">>))
  \o Opt(HasKey(layoutSettings, <<axisName, "overlaying">>), <<axisName, "overlaying">>,
         GetKey(layoutSettings, <<axisName, "overlaying">>))
  \o Opt(HasKey(layoutSettings, <<axisName, "side">>), <<axisName, "side">>,
         GetKey(layoutSettings, <<axisName, "side">>))

RECURSIVE SecondPassFrom(_, _)
SecondPassFrom(layoutSettings, i) ==
  IF i > Len(layoutSettings) THEN <<>>
  ELSE (IF IsPositionKey(layoutSettings[i].key)
        THEN SecondPassFor(layoutSettings, layoutSettings[i].key[1]) ELSE <<>>)
       \o SecondPassFrom(layoutSettings, i + 1)

posAxes(layoutSettings) ==
  {k[1] : k \in {q \in Keys(layoutSettings) : IsPositionKey(q)}}

secondPass(layoutSettings) == SecondPassFrom(layoutSettings, 1)

\* visibilityArray / normalizedVisibility of onInitialized
visibilityArray(traceVisibility) ==
  [i \in 1..Len(traceVisibility) |->
     IF traceVisibility[i] = JNull THEN JTrue ELSE traceVisibility[i]]

\* The normalisation without the slice of a longer array.
normalizedVisibilityPadOnly(traceVisibility, currentTraceCount) ==
  LET arr == visibilityArray(traceVisibility)
  IN  IF currentTraceCount > 0 /\ Len(arr) < currentTraceCount
      THEN arr \o [i \in 1..(currentTraceCount - Len(arr)) |-> JTrue]
      ELSE arr

normalizedVisibility(traceVisibility, currentTraceCount) ==
  LET arr == visibilityArray(traceVisibility)
  IN  IF currentTraceCount > 0 /\ Len(arr) > currentTraceCount
      THEN SubSeq(arr, 1, currentTraceCount)
      ELSE IF currentTraceCount > 0 /\ Len(arr) < currentTraceCount
      THEN arr \o [i \in 1..(currentTraceCount - Len(arr)) |-> JTrue]
      ELSE arr

\* ------------------------------------------- the rendering surface
\* What the surface does with a relayout command: each "<axis>.<field>" key
\* sets that field of the live layout (an indexed range key sets one endpoint).
LayoutAxes == {"xaxis"} \cup YAxisNames

SetField(layout, k, value) ==
  LET obj == IF Has(layout, k[1]) THEN layout[k[1]] ELSE EmptyObj
  IN  IF k[1] \notin LayoutAxes THEN layout
      ELSE IF k[2] \in {"range[0]", "range[1]"}
      THEN (k[1] :> (("range" :> JArr([CurrentRange(obj) EXCEPT ![RangeIndex(k)] = Token(value)]))
                     @@ obj)) @@ layout
      ELSE (k[1] :> ((k[2] :> value) @@ obj)) @@ layout

RECURSIVE ApplyRelayout(_, _, _)
ApplyRelayout(layout, settings, i) ==
  IF i > Len(settings) THEN layout
  ELSE ApplyRelayout(SetField(layout, settings[i].key, settings[i].value), settings, i + 1)

\* What the surface does with restyle({visible: array}): element i goes to trace i.
ApplyRestyle(data, visible) ==
  [i \in 1..Len(data) |->
     IF i <= Len(visible) THEN ("visible" :> visible[i]) @@ data[i] ELSE data[i]]

\* A legend click toggles a trace between shown and legend-only; hidden traces
\* and traces with showlegend false have no legend item.
InLegend(trace) ==
  /\ ~(Has(trace, "visible") /\ trace["visible"] = JFalse)
  /\ ~(Has(trace, "showlegend") /\ trace["showlegend"] = JFalse)

ToggleTrace(trace) ==
  ("visible" :> (IF Has(trace, "visible") /\ trace["visible"] = JStr("legendonly")
                 THEN JTrue ELSE JStr("legendonly"))) @@ trace

\* ------------------------------------------------- chart documents
\* The JSON documents a fetch may return, with the live and the computed
\* layout the surface holds after the first paint.  DocTwo is a cartesian
\* chart with a price series on the primary y-axis and a metric series on a
\* free secondary axis; DocPolar has one series and no cartesian axis.
PriceTrace == ("visible" :> JTrue)
MetricTrace == ("yaxis" :> "y2") @@ ("showlegend" :> JFalse)
PolarTrace == ("type" :> "scatterpolar")

FullLayout ==
  ("xaxis" :> (("range" :> JArr(<<"a1", "b1">>)) @@ ("autorange" :> JFalse)))
  @@ ("yaxis" :> (("type" :> JStr("log")) @@ ("autorange" :> JTrue)))
  @@ ("yaxis2" :> (("position" :> JNum("1")) @@ ("side" :> JStr("right"))
                   @@ ("anchor" :> JStr("free")) @@ ("overlaying" :> JStr("y"))
                   @@ ("type" :> JStr("linear"))))
  @@ ("yaxis3" :> ("range" :> JArr(<<"0", "9">>)))

\* The computed layout (_fullLayout): the surface has given the x axis and
\* the first two y axes their scale functions; yaxis3 has none yet.
ScaleFunction == [t |-> "function", v |-> <<>>]
ScaledAxes == {"xaxis", "yaxis", "yaxis2"}
ComputedLayout ==
  [a \in DOMAIN FullLayout |->
     IF a \in ScaledAxes THEN ("l2p" :> ScaleFunction) @@ FullLayout[a]
     ELSE FullLayout[a]]

DocTwo == [data |-> <<PriceTrace, MetricTrace>>, layout |-> FullLayout,
           fullLayout |-> ComputedLayout]
DocPolar == [data |-> <<PolarTrace>>, layout |-> EmptyObj, fullLayout |-> EmptyObj]

Documents == <<DocTwo, DocPolar>>
DocIds == 1..Len(Documents)
Served(chartId) == IF chartId = CHARTS[1] THEN {1} ELSE {2}

\* Relayout events of user interactions: the event payload and what the
\* surface has done to the live layout when it emits the event.
ZoomX0 == "2015-01-01"
ZoomX1 == "2025-11-05"
ZoomY0 == "-1"
ZoomY1 == "5.3"

BoxZoom ==
  [payload |-> <<Entry(<<"xaxis", "range[0]">>, JStr(ZoomX0)),
                 Entry(<<"xaxis", "range[1]">>, JStr(ZoomX1)),
                 Entry(<<"yaxis", "range[0]">>, JNum(ZoomY0)),
                 Entry(<<"yaxis", "range[1]">>, JNum(ZoomY1))>>,
   effect |-> <<Entry(<<"xaxis", "range">>, JArr(<<ZoomX0, ZoomX1>>)),
                Entry(<<"yaxis", "range">>, JArr(<<ZoomY0, ZoomY1>>)),
                Entry(<<"xaxis", "autorange">>, JFalse),
                Entry(<<"yaxis", "autorange">>, JFalse)>>]

Resize ==
  [payload |-> <<Entry(<<"", "autosize">>, JTrue)>>, effect |-> <<>>]

UserEvents == <<BoxZoom, Resize>>

\* zoom-select presets (all have the same four keys); case "default"
Presets ==
  << <<Entry(<<"xaxis", "range">>, JArr(<<ZoomX0, ZoomX1>>)),
       Entry(<<"yaxis", "range">>, JArr(<<ZoomY0, ZoomY1>>)),
       Entry(<<"xaxis", "autorange">>, JFalse),
       Entry(<<"yaxis", "autorange">>, JFalse)>> >>

\* ------------------------------------------------------------ state
VARIABLES
  selectedChartId,   \* useState selectedChartId
  phase,             \* what App renders: "loading", "error", "mounted", "ready"
  fetches,           \* chart ids whose load() is in flight
  loaded,            \* the document held by the data/layout state (0: null)
  graphDiv,          \* graphDivRef.current and the surface state it holds
  savedZooms,        \* useState savedZooms
  suppressRelayoutSaves, \* suppressRelayoutSavesRef.current
  timers,            \* pending setTimeout(saveCurrentZoom): closures per chart id
  restore,           \* the async onInitialized handler: position and locals
  drawingMode,       \* useState drawingMode: "off" or "line"
  selectedYAxisForDraw, \* useState selectedYAxisForDraw
  activeLine,        \* useState activeLine (JNull: null)
  drawingsByChart,   \* useState drawingsByChart; an absent key reads as []
  gestureChart,      \* history: the chart selected at the active line's pointer-down
  now,               \* Date.now(): the millisecond the clock shows
  last,              \* the last handler run and what it did
  arg,               \* input of a function applied on its own
  out                \* what the function returned

drawVars == <<drawingMode, selectedYAxisForDraw, activeLine, drawingsByChart,
              gestureChart, now>>

vars == <<selectedChartId, phase, fetches, loaded, graphDiv, savedZooms,
          suppressRelayoutSaves, timers, restore, drawVars, last, arg, out>>

NoGraph == [state |-> "null", owner |-> "", data |-> <<>>, layout |-> EmptyObj,
            fullLayout |-> EmptyObj, listening |-> FALSE]
Purged(gd) == [NoGraph EXCEPT !.state = IF gd.state = "null" THEN "null" ELSE "purged"]
NewGraph(chartId, d) ==
  [state |-> "live", owner |-> chartId, data |-> Documents[d].data,
   layout |-> Documents[d].layout, fullLayout |-> Documents[d].fullLayout,
   listening |-> FALSE]

\* graphDiv.on("plotly_doubleclick", ...): the end of onInitialized
InstallListeners(gd, done) == [gd EXCEPT !.listening = @ \/ done]

\* if (!gd || !gd.layout) return;
HasLayout(gd) == gd.state = "live"

IdleRestore == [pc |-> "idle", result |-> NoResult, from |-> EmptyObj]

\* onRelayout.  The surface emits the relayout event of a command when the
\* command completes, before any other task runs.
\* if (suppressRelayoutSavesRef.current > 0)
Suppressed(counter) == counter > 0

\* onRelayout decrementing without the test of the counter.
AfterRelayoutUnguarded(counter) == counter - 1

\* suppressRelayoutSavesRef.current -= 1; return;
AfterRelayout(counter) == IF Suppressed(counter) THEN counter - 1 ELSE counter

\* Arming by adding to the counter.
ArmAdding(counter) == counter + 1

\* suppressRelayoutSavesRef.current = 1
Arm(counter) == 1

\* if (Object.keys(zoom).length > 0 || hasAxisPositionChange)
SchedulesSave(evt) ==
  DOMAIN extractZoomFromRelayoutEvent(evt) # {} \/ hasAxisPositionChange(evt)

\* setTimeout(() => saveCurrentZoom(), 100) is reached
RelayoutSchedules(counter, evt) == ~Suppressed(counter) /\ SchedulesSave(evt)

\* What a handler did.  key: the chart id it ran under.  origin: who caused
\* the relayout event that onRelayout handled in it ("" if none); before: the
\* counter when the event arrived; carries: the event had a range, autorange
\* or axis-geometry key; scheduled: onRelayout scheduled a deferred save.
\* wrote: a snapshot was stored.  cmd: the restore command issued.
NoCmd == [pass |-> 0, arg |-> <<>>, ok |-> FALSE, from |-> EmptyObj, count |-> 0]
Cmd(pass, a, ok, from, count) ==
  [pass |-> pass, arg |-> a, ok |-> ok, from |-> from, count |-> count]

Did(op, key, origin, before, carries, scheduled, wrote, cmd) ==
  [op |-> op, key |-> key, origin |-> origin, before |-> before, carries |-> carries,
   scheduled |-> scheduled, wrote |-> wrote, cmd |-> cmd]

Quiet(op, key) == Did(op, key, "", 0, FALSE, FALSE, FALSE, NoCmd)

Handled(op, key, origin, before, evt, cmd) ==
  Did(op, key, origin, before, SchedulesSave(evt), RelayoutSchedules(before, evt),
      FALSE, cmd)

NotApplied == [fn |-> "", value |-> <<>>]
Applied(fn, value) == [fn |-> fn, value |-> value]

TimerCount == Cardinality({<<c, n>> \in ChartIds \X (1..MaxTimers) : timers[c] >= n})
Schedule(ts, chartId) == [ts EXCEPT ![chartId] = @ + 1]

\* The state after the first render: the first chart selected, its load() in
\* flight, nothing drawn, nothing saved.
FirstRender ==
  /\ selectedChartId = CHARTS[1]
  /\ phase = "loading"
  /\ fetches = {CHARTS[1]}
  /\ loaded = 0
  /\ graphDiv = NoGraph
  /\ savedZooms = EmptyObj
  /\ suppressRelayoutSaves = 0
  /\ timers = [c \in ChartIds |-> 0]
  /\ restore = IdleRestore
  /\ drawingMode = "off"
  /\ selectedYAxisForDraw = "yaxis"
  /\ activeLine = JNull
  /\ drawingsByChart = [c \in ChartIds |-> <<>>]
  /\ gestureChart = ""
  /\ now = 0
  /\ last = Quiet("init", "")

Init ==
  /\ FirstRender
  /\ arg = <<>>
  /\ out = NotApplied

\* ---------------------------------------------------------- handlers
\* saveCurrentZoom as closed over chartId: reads the graph div the ref holds
\* now, stores under the chart id of the render that created the closure.
saveCurrentZoom(chartId) ==
  IF HasLayout(graphDiv)
  THEN StoreZoom(savedZooms, chartId, zoomSettings(graphDiv))
  ELSE savedZooms

\* load(): the fetch resolves with a document; setData/setLayout, setError(null)
FetchDone(c, d) ==
  /\ c \in fetches
  /\ phase = "loading"
  /\ fetches' = fetches \ {c}
  /\ loaded' = d
  /\ phase' = "mounted"
  /\ last' = Quiet("fetchDone", c)
  /\ UNCHANGED <<drawVars, arg, out, selectedChartId, graphDiv, savedZooms, suppressRelayoutSaves,
                 timers, restore>>

\* load(): the fetch or the parse fails; setError(message)
FetchFail(c) ==
  /\ c \in fetches
  /\ phase = "loading"
  /\ fetches' = fetches \ {c}
  /\ phase' = "error"
  /\ last' = Quiet("fetchFail", c)
  /\ UNCHANGED <<drawVars, arg, out, selectedChartId, loaded, graphDiv, savedZooms,
                 suppressRelayoutSaves, timers, restore>>

\* if (savedZoomResult && savedZoomResult.layoutSettings && Object.keys(...).length > 0)
RestoreApplies(result) == result.found /\ Len(result.layoutSettings) > 0

\* onInitialized up to its first await: the ref is set, the snapshot is read,
\* the counter is armed and the visibility command is issued.
OnInitialized ==
  /\ phase = "mounted"
  /\ LET gd == NewGraph(selectedChartId, loaded)
         result == restoreSavedZoom(savedZooms, selectedChartId)
         vis == normalizedVisibility(result.traceVisibility, Len(gd.data))
     IN  IF RestoreApplies(result)
         THEN /\ graphDiv' = [gd EXCEPT !.data = ApplyRestyle(gd.data, vis)]
              /\ suppressRelayoutSaves' = Arm(suppressRelayoutSaves)
              /\ restore' = [pc |-> "pass2", result |-> result,
                             from |-> savedZooms[selectedChartId]]
              /\ last' = Did("initialized", selectedChartId, "", 0, FALSE, FALSE, FALSE,
                             Cmd(1, vis, TRUE, savedZooms[selectedChartId], Len(gd.data)))
         ELSE /\ graphDiv' = InstallListeners(gd, TRUE)
              /\ restore' = IdleRestore
              /\ last' = Quiet("initialized", selectedChartId)
              /\ UNCHANGED suppressRelayoutSaves
  /\ phase' = "ready"
  /\ UNCHANGED <<drawVars, arg, out, selectedChartId, fetches, loaded, savedZooms, timers>>

\* RestorePass going on to the next pass whether or not the command was
\* accepted.
RestorePassContinues(pass, settings, ok, next) ==
  LET sched == ok /\ RelayoutSchedules(suppressRelayoutSaves, settings)
  IN  /\ sched => TimerCount < MaxTimers
      /\ graphDiv' = InstallListeners(
                        IF ok THEN [graphDiv EXCEPT !.layout = ApplyRelayout(@, settings, 1)]
                        ELSE graphDiv, ~(ok /\ next))
      /\ suppressRelayoutSaves' = IF ok THEN AfterRelayout(suppressRelayoutSaves)
                                        ELSE suppressRelayoutSaves
      /\ timers' = IF sched THEN Schedule(timers, selectedChartId) ELSE timers
      /\ restore' = IF next THEN [restore EXCEPT !.pc = "pass3"] ELSE IdleRestore
      /\ last' = LET cmd == Cmd(pass, settings, ok, restore.from, Len(graphDiv.data))
                      op == IF pass = 2 THEN "pass2" ELSE "pass3"
                  IN  IF ok THEN Handled(op, selectedChartId, "restore",
                                         suppressRelayoutSaves, settings, cmd)
                      ELSE Did(op, selectedChartId, "", 0, FALSE, FALSE, FALSE, cmd)
      /\ UNCHANGED <<drawVars, arg, out, selectedChartId, phase, fetches, loaded, savedZooms>>

\* RestorePass leaving a rejected command to be issued again.
RestorePassRetries(pass, settings, ok, next) ==
  LET sched == ok /\ RelayoutSchedules(suppressRelayoutSaves, settings)
  IN  /\ sched => TimerCount < MaxTimers
      /\ graphDiv' = InstallListeners(
                        IF ok THEN [graphDiv EXCEPT !.layout = ApplyRelayout(@, settings, 1)]
                        ELSE graphDiv, ~(ok /\ next))
      /\ suppressRelayoutSaves' = IF ok THEN AfterRelayout(suppressRelayoutSaves)
                                        ELSE suppressRelayoutSaves
      /\ timers' = IF sched THEN Schedule(timers, selectedChartId) ELSE timers
      /\ restore' = IF ok /\ next THEN [restore EXCEPT !.pc = "pass3"]
                    ELSE IF ok THEN IdleRestore ELSE restore
      /\ last' = LET cmd == Cmd(pass, settings, ok, restore.from, Len(graphDiv.data))
                      op == IF pass = 2 THEN "pass2" ELSE "pass3"
                  IN  IF ok THEN Handled(op, selectedChartId, "restore",
                                         suppressRelayoutSaves, settings, cmd)
                      ELSE Did(op, selectedChartId, "", 0, FALSE, FALSE, FALSE, cmd)
      /\ UNCHANGED <<drawVars, arg, out, selectedChartId, phase, fetches, loaded, savedZooms>>

\* The rest of onInitialized after `await Plotly.relayout(graphDiv, settings)`
\* of pass `pass`: the surface applies the command and emits its relayout
\* event (onRelayout runs), or rejects the command (caught).
RestorePass(pass, settings, ok, next) ==
  LET sched == ok /\ RelayoutSchedules(suppressRelayoutSaves, settings)
  IN  /\ sched => TimerCount < MaxTimers
      /\ graphDiv' = InstallListeners(
                        IF ok THEN [graphDiv EXCEPT !.layout = ApplyRelayout(@, settings, 1)]
                        ELSE graphDiv, ~(ok /\ next))
      /\ suppressRelayoutSaves' = IF ok THEN AfterRelayout(suppressRelayoutSaves)
                                        ELSE suppressRelayoutSaves
      /\ timers' = IF sched THEN Schedule(timers, selectedChartId) ELSE timers
      /\ restore' = IF ok /\ next THEN [restore EXCEPT !.pc = "pass3"] ELSE IdleRestore
      /\ last' = LET cmd == Cmd(pass, settings, ok, restore.from, Len(graphDiv.data))
                      op == IF pass = 2 THEN "pass2" ELSE "pass3"
                  IN  IF ok THEN Handled(op, selectedChartId, "restore",
                                         suppressRelayoutSaves, settings, cmd)
                      ELSE Did(op, selectedChartId, "", 0, FALSE, FALSE, FALSE, cmd)
      /\ UNCHANGED <<drawVars, arg, out, selectedChartId, phase, fetches, loaded, savedZooms>>

\* await Plotly.relayout(graphDiv, savedZoomResult.layoutSettings)
Pass2 ==
  /\ restore.pc = "pass2"
  /\ \E ok \in BOOLEAN :
       RestorePass(2, restore.result.layoutSettings, ok,
                   posAxes(restore.result.layoutSettings) # {})

\* if (posAxes.length > 0) await Plotly.relayout(graphDiv, secondPass)
Pass3 ==
  /\ restore.pc = "pass3"
  /\ \E ok \in BOOLEAN :
       RestorePass(3, secondPass(restore.result.layoutSettings), ok, FALSE)

\* The user pans, zooms or resizes: the surface changes the live layout and
\* emits the relayout event (onRelayout runs).
UserRelayout(u) ==
  LET evt == UserEvents[u].payload
      sched == RelayoutSchedules(suppressRelayoutSaves, evt)
  IN  /\ phase = "ready"
      /\ sched => TimerCount < MaxTimers
      /\ graphDiv' = [graphDiv EXCEPT !.layout = ApplyRelayout(@, UserEvents[u].effect, 1)]
      /\ suppressRelayoutSaves' = AfterRelayout(suppressRelayoutSaves)
      /\ timers' = IF sched THEN Schedule(timers, selectedChartId) ELSE timers
      /\ last' = Handled("relayout", selectedChartId, "user", suppressRelayoutSaves,
                         evt, NoCmd)
      /\ UNCHANGED <<drawVars, arg, out, selectedChartId, phase, fetches, loaded, savedZooms, restore>>

\* onLegendClick (returns true: the surface then toggles the trace).  The
\* toggle is a restyle; whether the surface follows it with a relayout event
\* is left open (echo; the event would carry no axis key).
OnLegendClick(i, echo) ==
  /\ phase = "ready"
  /\ i \in 1..Len(graphDiv.data)
  /\ InLegend(graphDiv.data[i])
  /\ TimerCount < MaxTimers
  /\ suppressRelayoutSaves' = IF echo THEN AfterRelayout(Arm(suppressRelayoutSaves))
                            ELSE Arm(suppressRelayoutSaves)
  /\ timers' = Schedule(timers, selectedChartId)
  /\ graphDiv' = [graphDiv EXCEPT !.data[i] = ToggleTrace(@)]
  /\ last' = IF echo THEN Handled("legend", selectedChartId, "legend", 1, <<>>, NoCmd)
                     ELSE Quiet("legend", selectedChartId)
  /\ UNCHANGED <<drawVars, arg, out, selectedChartId, phase, fetches, loaded, savedZooms, restore>>

\* zoom-select onChange: arm the counter, Plotly.relayout(gd, preset) (its
\* event follows), setTimeout(() => saveCurrentZoom(), 50)
ZoomPreset(p) ==
  LET echo == RelayoutSchedules(1, Presets[p])
  IN  /\ phase = "ready"
      /\ TimerCount + (IF echo THEN 1 ELSE 0) < MaxTimers
      /\ suppressRelayoutSaves' = AfterRelayout(Arm(suppressRelayoutSaves))
      /\ graphDiv' = [graphDiv EXCEPT !.layout = ApplyRelayout(@, Presets[p], 1)]
      /\ timers' = IF echo THEN Schedule(Schedule(timers, selectedChartId), selectedChartId)
                           ELSE Schedule(timers, selectedChartId)
      /\ last' = Handled("preset", selectedChartId, "preset", 1, Presets[p], NoCmd)
      /\ UNCHANGED <<drawVars, arg, out, selectedChartId, phase, fetches, loaded, savedZooms, restore>>

\* The nav click saving after the switch, under the chart being activated.
\* The navigation buttons rendered on every screen.
NavRenderedAlways == TRUE

\* if (error) return ...; if (!data) return ...: the sidebar and its
\* buttons are part of the chart screen only
NavRendered == phase \in {"mounted", "ready"}

NavClickSavesUnderNew(c) ==
  /\ NavRendered
  /\ savedZooms' = saveCurrentZoom(c)
  /\ selectedChartId' = c
  /\ loaded' = 0
  /\ phase' = "loading"
  /\ fetches' = IF c # selectedChartId THEN fetches \cup {c} ELSE fetches
  /\ graphDiv' = Purged(graphDiv)
  /\ restore' = IdleRestore
  /\ last' = Did("nav", selectedChartId, "", 0, FALSE, FALSE, HasLayout(graphDiv), NoCmd)
  /\ UNCHANGED <<drawVars, arg, out, suppressRelayoutSaves, timers>>

\* nav-item onClick: save, then setSelectedChartId(c), setError(null),
\* setData(null).  With data null the Plot is unmounted (its graph div is
\* purged and what is left of its restore acts on the purged div); the load
\* effect runs only when the path changes.
NavClick(c) ==
  /\ NavRendered
  /\ savedZooms' = saveCurrentZoom(selectedChartId)
  /\ selectedChartId' = c
  /\ loaded' = 0
  /\ phase' = "loading"
  /\ fetches' = IF c # selectedChartId THEN fetches \cup {c} ELSE fetches
  /\ graphDiv' = Purged(graphDiv)
  /\ restore' = IdleRestore
  /\ last' = Did("nav", selectedChartId, "", 0, FALSE, FALSE, HasLayout(graphDiv), NoCmd)
  /\ UNCHANGED <<drawVars, arg, out, suppressRelayoutSaves, timers>>

\* A setTimeout(() => saveCurrentZoom(), ...) scheduled under chart c runs.
TimerFire(c) ==
  /\ timers[c] > 0
  /\ timers' = [timers EXCEPT ![c] = @ - 1]
  /\ savedZooms' = saveCurrentZoom(c)
  /\ last' = Did("timer", c, "", 0, FALSE, FALSE, HasLayout(graphDiv), NoCmd)
  /\ UNCHANGED <<drawVars, arg, out, selectedChartId, phase, fetches, loaded, graphDiv,
                 suppressRelayoutSaves, restore>>

\* legend items that can be clicked: one per series of the largest document
LegendItems == DOMAIN DocTwo.data

Next ==
  \/ \E c \in ChartIds : \E d \in Served(c) : FetchDone(c, d)
  \/ \E c \in ChartIds : FetchFail(c)
  \/ OnInitialized
  \/ Pass2
  \/ Pass3
  \/ \E u \in 1..Len(UserEvents) : UserRelayout(u)
  \/ \E i \in LegendItems, echo \in BOOLEAN : OnLegendClick(i, echo)
  \/ \E p \in 1..Len(Presets) : ZoomPreset(p)
  \/ \E c \in ChartIds : NavClick(c)
  \/ \E c \in ChartIds : TimerFire(c)

Spec == Init /\ [][Next]_vars

\* A fetch in flight settles: the response arrives or the request fails.
FetchSettles == \E c \in ChartIds : (\E d \in Served(c) : FetchDone(c, d)) \/ FetchFail(c)

SpecLive == Spec /\ WF_vars(FetchSettles)

\* ------------------------------------- the drawing overlay
\* A DrawingLine is [id, x0, y0, x1, y1, yAxisName]; its constant color and
\* width are left out.  The container rectangle is at the client origin.  An axis maps a local pixel q to the data value
\* 2 * q and back; axes differ in their _offset.

\* the lines stored for the first n charts
RECURSIVE LinesUpTo(_)
LinesUpTo(n) == IF n = 0 THEN 0 ELSE Len(drawingsByChart[CHARTS[n]]) + LinesUpTo(n - 1)

\* a gesture starts only while the stored lines leave room
TotalLines == LinesUpTo(NumCharts)

\* where the pointer goes down, and where it moves to and comes up
PointerDowns == {[clientX |-> 4, clientY |-> 6]}
PointerEvents == PointerDowns \cup {[clientX |-> 6, clientY |-> 4]}

\* axes.x._offset, axes.y._offset
AxisOffset(axisName) ==
  IF axisName = "xaxis" THEN 3 ELSE IF axisName = "yaxis" THEN 1 ELSE 2

p2l(q) == 2 * q
l2p(v) == v \div 2

\* typeof axis.l2p === "function"
HasScale(axis) == Has(axis, "l2p") /\ axis["l2p"].t = "function"

\* getAxisObjects checking only the y axis.
getAxisObjectsYOnly(gd, yAxisName) ==
  IF gd.state # "live" THEN JNull
  ELSE IF ~Has(gd.fullLayout, yAxisName) THEN JNull
  ELSE IF ~HasScale(gd.fullLayout[yAxisName]) THEN JNull
  ELSE [x |-> "xaxis", y |-> yAxisName]

\* getAxisObjects: null without a computed layout, without the x axis or the
\* requested y axis, or when either has no l2p function.
getAxisObjects(gd, yAxisName) ==
  IF gd.state # "live" THEN JNull
  ELSE IF ~Has(gd.fullLayout, "xaxis") \/ ~Has(gd.fullLayout, yAxisName) THEN JNull
  ELSE IF ~HasScale(gd.fullLayout["xaxis"]) \/ ~HasScale(gd.fullLayout[yAxisName])
       THEN JNull
  ELSE [x |-> "xaxis", y |-> yAxisName]

\* the container rectangle of the graph div (getBoundingClientRect)
ClientRect == [left |-> 0, top |-> 0]

\* pixelToData past its null test, ignoring the axis offsets.
pixelToDataNoOffset(px, py, rect, xOffset, yOffset) ==
  [x |-> p2l(px - rect.left), y |-> p2l(py - rect.top)]

\* pixelToData past its null test: pxLocal, pyLocal, xVal, yVal
pixelToDataAt(px, py, rect, xOffset, yOffset) ==
  [x |-> p2l((px - rect.left) - xOffset), y |-> p2l((py - rect.top) - yOffset)]

\* dataToPixel past its null test: px, py relative to the container
dataToPixelAt(xVal, yVal, xOffset, yOffset) ==
  [px |-> l2p(xVal) + xOffset, py |-> l2p(yVal) + yOffset]

pixelToData(gd, px, py, yAxisName) ==
  LET axes == getAxisObjects(gd, yAxisName)
  IN  IF axes = JNull \/ gd.state = "null" THEN JNull
      ELSE pixelToDataAt(px, py, ClientRect, AxisOffset(axes.x), AxisOffset(axes.y))

\* dataToPixel without the test of the axes.
dataToPixelUnchecked(gd, xVal, yVal, yAxisName) ==
  [px |-> l2p(xVal) + AxisOffset("xaxis"), py |-> l2p(yVal) + AxisOffset(yAxisName)]

dataToPixel(gd, xVal, yVal, yAxisName) ==
  LET axes == getAxisObjects(gd, yAxisName)
  IN  IF axes = JNull THEN JNull
      ELSE dataToPixelAt(xVal, yVal, AxisOffset(axes.x), AxisOffset(axes.y))

\* the toolbar and the overlay are rendered only past the early returns
\* `if (error)` and `if (!data)`
OverlayRendered == phase \in {"mounted", "ready"}

DrawModes == {"off", "line"}

\* draw-mode select onChange
SetDrawingMode(m) ==
  /\ OverlayRendered
  /\ drawingMode' = m
  /\ out' = NotApplied
  /\ UNCHANGED <<selectedYAxisForDraw, activeLine, drawingsByChart, gestureChart>>
  /\ last' = Quiet("drawMode", selectedChartId)
  /\ UNCHANGED <<now, arg, selectedChartId, phase, fetches, loaded, graphDiv, savedZooms,
                 suppressRelayoutSaves, timers, restore>>

\* draw-axis select onChange
SetSelectedYAxisForDraw(a) ==
  /\ OverlayRendered
  /\ selectedYAxisForDraw' = a
  /\ out' = NotApplied
  /\ UNCHANGED <<drawingMode, activeLine, drawingsByChart, gestureChart>>
  /\ last' = Quiet("drawAxis", selectedChartId)
  /\ UNCHANGED <<now, arg, selectedChartId, phase, fetches, loaded, graphDiv, savedZooms,
                 suppressRelayoutSaves, timers, restore>>

\* `line_${Date.now()}`
LineId(ms) == <<"line", ms>>

NewLine(coords, yAxisName, ms) ==
  [id |-> LineId(ms), x0 |-> coords.x, y0 |-> coords.y, x1 |-> coords.x, y1 |-> coords.y,
   yAxisName |-> yAxisName]

\* onMouseDown without the test of the drawing mode.
startDrawingAnyMode(e) ==
  /\ OverlayRendered
  /\ TotalLines < MaxLines
  /\ LET coords == pixelToData(graphDiv, e.clientX, e.clientY, selectedYAxisForDraw)
     IN  IF coords = JNull
         THEN UNCHANGED <<activeLine, gestureChart>>
         ELSE /\ activeLine' = NewLine(coords, selectedYAxisForDraw, now)
              /\ gestureChart' = selectedChartId
  /\ out' = NotApplied
  /\ UNCHANGED <<drawingMode, selectedYAxisForDraw, drawingsByChart>>
  /\ last' = Quiet("pointerDown", selectedChartId)
  /\ UNCHANGED <<now, arg, selectedChartId, phase, fetches, loaded, graphDiv, savedZooms,
                 suppressRelayoutSaves, timers, restore>>

\* onMouseDown
startDrawing(e) ==
  /\ OverlayRendered
  /\ TotalLines < MaxLines
  /\ LET coords == pixelToData(graphDiv, e.clientX, e.clientY, selectedYAxisForDraw)
     IN  IF drawingMode # "line" \/ coords = JNull
         THEN UNCHANGED <<activeLine, gestureChart>>
         ELSE /\ activeLine' = NewLine(coords, selectedYAxisForDraw, now)
              /\ gestureChart' = selectedChartId
  /\ out' = NotApplied
  /\ UNCHANGED <<drawingMode, selectedYAxisForDraw, drawingsByChart>>
  /\ last' = Quiet("pointerDown", selectedChartId)
  /\ UNCHANGED <<now, arg, selectedChartId, phase, fetches, loaded, graphDiv, savedZooms,
                 suppressRelayoutSaves, timers, restore>>

\* onMouseMove converting under the axis selected now.
moveDrawingSelectedAxis(e) ==
  /\ OverlayRendered
  /\ activeLine' =
       IF activeLine = JNull \/ drawingMode # "line" THEN activeLine
       ELSE LET coords == pixelToData(graphDiv, e.clientX, e.clientY,
                                      selectedYAxisForDraw)
            IN  IF coords = JNull THEN activeLine
                ELSE [activeLine EXCEPT !.x1 = coords.x, !.y1 = coords.y]
  /\ out' = NotApplied
  /\ UNCHANGED <<drawingMode, selectedYAxisForDraw, drawingsByChart, gestureChart>>
  /\ last' = Quiet("pointerMove", selectedChartId)
  /\ UNCHANGED <<now, arg, selectedChartId, phase, fetches, loaded, graphDiv, savedZooms,
                 suppressRelayoutSaves, timers, restore>>

\* onMouseMove
moveDrawing(e) ==
  /\ OverlayRendered
  /\ activeLine' =
       IF activeLine = JNull \/ drawingMode # "line" THEN activeLine
       ELSE LET coords == pixelToData(graphDiv, e.clientX, e.clientY,
                                      activeLine.yAxisName)
            IN  IF coords = JNull THEN activeLine
                ELSE [activeLine EXCEPT !.x1 = coords.x, !.y1 = coords.y]
  /\ out' = NotApplied
  /\ UNCHANGED <<drawingMode, selectedYAxisForDraw, drawingsByChart, gestureChart>>
  /\ last' = Quiet("pointerMove", selectedChartId)
  /\ UNCHANGED <<now, arg, selectedChartId, phase, fetches, loaded, graphDiv, savedZooms,
                 suppressRelayoutSaves, timers, restore>>

\* arr.unshift(finalized) in the place of arr.push(finalized).
unshift(arr, finalized) == <<finalized>> \o arr

\* arr.push(finalized)
push(arr, finalized) == Append(arr, finalized)

\* onMouseUp
endDrawing(e) ==
  /\ OverlayRendered
  /\ IF activeLine = JNull \/ drawingMode # "line"
     THEN UNCHANGED <<activeLine, drawingsByChart, gestureChart>>
     ELSE LET coords == pixelToData(graphDiv, e.clientX, e.clientY,
                                    activeLine.yAxisName)
          IN  /\ activeLine' = JNull
              /\ gestureChart' = ""
              /\ drawingsByChart' =
                   IF coords = JNull THEN drawingsByChart
                   ELSE [drawingsByChart EXCEPT ![selectedChartId] =
                           push(@, [activeLine EXCEPT !.x1 = coords.x,
                                                      !.y1 = coords.y])]
  /\ out' = NotApplied
  /\ UNCHANGED <<drawingMode, selectedYAxisForDraw>>
  /\ last' = Quiet("pointerUp", selectedChartId)
  /\ UNCHANGED <<now, arg, selectedChartId, phase, fetches, loaded, graphDiv, savedZooms,
                 suppressRelayoutSaves, timers, restore>>

\* Clear Drawings onClick replacing the whole record.
ClearDrawingsEverywhere ==
  /\ OverlayRendered
  /\ drawingsByChart' = [c \in ChartIds |-> <<>>]
  /\ out' = NotApplied
  /\ UNCHANGED <<drawingMode, selectedYAxisForDraw, activeLine, gestureChart>>
  /\ last' = Quiet("clear", selectedChartId)
  /\ UNCHANGED <<now, arg, selectedChartId, phase, fetches, loaded, graphDiv, savedZooms,
                 suppressRelayoutSaves, timers, restore>>

\* Clear Drawings onClick
ClearDrawings ==
  /\ OverlayRendered
  /\ drawingsByChart' = [drawingsByChart EXCEPT ![selectedChartId] = <<>>]
  /\ out' = NotApplied
  /\ UNCHANGED <<drawingMode, selectedYAxisForDraw, activeLine, gestureChart>>
  /\ last' = Quiet("clear", selectedChartId)
  /\ UNCHANGED <<now, arg, selectedChartId, phase, fetches, loaded, graphDiv, savedZooms,
                 suppressRelayoutSaves, timers, restore>>

\* toLine: the <line> element of d, or null
toLine(gd, d) ==
  LET a == dataToPixel(gd, d.x0, d.y0, d.yAxisName)
      b == dataToPixel(gd, d.x1, d.y1, d.yAxisName)
  IN  IF a = JNull \/ b = JNull THEN JNull
      ELSE [x1 |-> a.px, y1 |-> a.py, x2 |-> b.px, y2 |-> b.py]

\* the overlay's render: the stored lines of the selected chart, then the
\* active line
Overlay ==
  [drawings |-> [i \in DOMAIN drawingsByChart[selectedChartId] |->
                   toLine(graphDiv, drawingsByChart[selectedChartId][i])],
   active |-> IF activeLine # JNull THEN toLine(graphDiv, activeLine) ELSE JNull]

Paint ==
  /\ OverlayRendered
  /\ out = NotApplied
  /\ out' = Applied("overlay", Overlay)
  /\ UNCHANGED <<drawVars, arg, selectedChartId, phase, fetches, loaded, graphDiv,
                 savedZooms, suppressRelayoutSaves, timers, restore, last>>

\* The charts of the drawing specification all hold the cartesian document.
ServedDraw(chartId) == {1}

\* The annotation handlers with the chart switch and the load they depend
\* on.  The captures, the restore passes and the zoom commands touch no
\* annotation state and no computed layout, and are left out; so is the
\* clock, which the handlers use for the ids of the lines only.
NextDraw ==
  \/ \E c \in ChartIds : \E d \in ServedDraw(c) : FetchDone(c, d)
  \/ OnInitialized
  \/ \E c \in ChartIds : NavClick(c)
  \/ \E m \in DrawModes : SetDrawingMode(m)
  \/ \E a \in YAxisNames : SetSelectedYAxisForDraw(a)
  \/ \E e \in PointerDowns : startDrawing(e)
  \/ \E e \in PointerEvents : moveDrawing(e)
  \/ \E e \in PointerEvents : endDrawing(e)
  \/ ClearDrawings
  \/ Paint

SpecDraw == Init /\ [][NextDraw]_vars

\* ------------------------------------- the line ids
\* The first chart drawn and initialised with nothing to restore.
FirstChartReady ==
  /\ selectedChartId = CHARTS[1]
  /\ phase = "ready"
  /\ fetches = {}
  /\ loaded = 1
  /\ graphDiv = InstallListeners(NewGraph(CHARTS[1], 1), TRUE)
  /\ savedZooms = EmptyObj
  /\ suppressRelayoutSaves = 0
  /\ timers = [c \in ChartIds |-> 0]
  /\ restore = IdleRestore
  /\ drawingMode = "off"
  /\ selectedYAxisForDraw = "yaxis"
  /\ activeLine = JNull
  /\ drawingsByChart = [c \in ChartIds |-> <<>>]
  /\ gestureChart = ""
  /\ now = 0
  /\ last = Quiet("initialized", CHARTS[1])

InitIds ==
  /\ FirstChartReady
  /\ arg = <<>>
  /\ out = NotApplied

\* a millisecond passes
Tick ==
  /\ now < MaxClock
  /\ now' = now + 1
  /\ UNCHANGED <<drawingMode, selectedYAxisForDraw, activeLine, drawingsByChart,
                 gestureChart, arg, out, selectedChartId, phase, fetches, loaded,
                 graphDiv, savedZooms, suppressRelayoutSaves, timers, restore, last>>

\* The pointer handlers on one chart, with the clock.
NextIds ==
  \/ Tick
  \/ \E m \in DrawModes : SetDrawingMode(m)
  \/ \E e \in PointerDowns : startDrawing(e)
  \/ \E e \in PointerEvents : moveDrawing(e)
  \/ \E e \in PointerEvents : endDrawing(e)
  \/ ClearDrawings

SpecIds == InitIds /\ [][NextIds]_vars

\* ------------------------------------- the interpreter on its own
\* Relayout events handed to extractZoomFromRelayoutEvent: up to MaxKeys
\* entries with distinct keys, in any insertion order.
InterpAxes == {"xaxis", "yaxis2"}
InterpEntries ==
  UNION {{Entry(<<a, "range[0]">>, JStr("2022-01-01")),
          Entry(<<a, "range[1]">>, JNum("7.5")),
          Entry(<<a, "range">>, JArr(<<"c", "d">>)),
          Entry(<<a, "range">>, JArr(<<"c">>)),
          Entry(<<a, "autorange">>, JTrue),
          Entry(<<a, "autorange">>, JNum("0"))} : a \in InterpAxes}
  \cup {Entry(<<"", "autosize">>, JTrue), Entry(<<"zaxis", "autorange">>, JTrue)}

DistinctKeys(evt) == \A i, j \in 1..Len(evt) : evt[i].key = evt[j].key => i = j

RelayoutEvents ==
  {evt \in UNION {[1..n -> InterpEntries] : n \in 0..MaxKeys} : DistinctKeys(evt)}

InitInterp ==
  /\ FirstRender
  /\ arg \in RelayoutEvents
  /\ out = NotApplied

Interpret ==
  /\ out = NotApplied
  /\ out' = Applied("extractZoomFromRelayoutEvent", extractZoomFromRelayoutEvent(arg))
  /\ UNCHANGED <<drawVars, arg, selectedChartId, phase, fetches, loaded, graphDiv, savedZooms,
                 suppressRelayoutSaves, timers, restore, last>>

NextInterp == Interpret

SpecInterp == InitInterp /\ [][NextInterp]_vars

\* ----------------------- the visibility normalisation on its own
\* Snapshot visibility arrays of up to MaxSeries entries against a graph of
\* up to MaxSeries series.
VisibilityValues == {JTrue, JFalse, JStr("legendonly"), JNull}
VisibilityArrays == UNION {[1..n -> VisibilityValues] : n \in 0..MaxSeries}

InitVisibility ==
  /\ FirstRender
  /\ arg \in [traceVisibility : VisibilityArrays, currentTraceCount : 0..MaxSeries]
  /\ out = NotApplied

Normalize ==
  /\ out = NotApplied
  /\ out' = Applied("normalizedVisibility",
                    normalizedVisibility(arg.traceVisibility, arg.currentTraceCount))
  /\ UNCHANGED <<drawVars, arg, selectedChartId, phase, fetches, loaded, graphDiv, savedZooms,
                 suppressRelayoutSaves, timers, restore, last>>

NextVisibility == Normalize

SpecVisibility == InitVisibility /\ [][NextVisibility]_vars

\* ----------------------------------- the projection on its own
\* A data point on the pixel grid of an axis, the offsets of the x axis and
\* of the y axis, and the origin of the container.
GridValues == {p2l(q) : q \in 0..MaxPixel}
Projections ==
  [x : GridValues, y : GridValues, xOffset : 0..MaxPixel, yOffset : 0..1,
   left : 0..1, top : 0..MaxPixel]

InitProject ==
  /\ FirstRender
  /\ arg \in Projections
  /\ out = NotApplied

\* dataToPixel, the result shifted to client coordinates, then pixelToData
Project ==
  /\ out = NotApplied
  /\ LET at == dataToPixelAt(arg.x, arg.y, arg.xOffset, arg.yOffset)
         rect == [left |-> arg.left, top |-> arg.top]
     IN  out' = Applied("pixelToData",
                        pixelToDataAt(at.px + rect.left, at.py + rect.top, rect,
                                      arg.xOffset, arg.yOffset))
  /\ UNCHANGED <<drawVars, arg, selectedChartId, phase, fetches, loaded, graphDiv, savedZooms,
                 suppressRelayoutSaves, timers, restore, last>>

NextProject == Project

SpecProject == InitProject /\ [][NextProject]_vars

\* ------------------------------------- the capture on its own
\* Graph divs with the layout of the cartesian document and up to MaxSeries
\* series, each untagged or tagged y, y2 or y3.
CaptureTraces == {PriceTrace, MetricTrace, "yaxis" :> "y", "yaxis" :> "y3"}
CaptureData == UNION {[1..n -> CaptureTraces] : n \in 0..MaxSeries}
CaptureGraphs == {[NewGraph(CHARTS[1], 1) EXCEPT !.data = d] : d \in CaptureData}

InitCapture ==
  /\ FirstRender
  /\ arg \in CaptureGraphs
  /\ out = NotApplied

Capture ==
  /\ out = NotApplied
  /\ out' = Applied("zoomSettings", zoomSettings(arg))
  /\ UNCHANGED <<drawVars, arg, selectedChartId, phase, fetches, loaded, graphDiv, savedZooms,
                 suppressRelayoutSaves, timers, restore, last>>

NextCapture == Capture

SpecCapture == InitCapture /\ [][NextCapture]_vars

\* ------------------------------------- the restore settings on their own
\* Snapshots whose second y axis has any subset of the geometry fields and
\* the type, with or without a primary axis and a third axis at position 0.
SnapshotFields == {"position", "anchor", "overlaying", "side", "type"}
SnapshotValue(f) ==
  CASE f = "position" -> JNum("0.9")
    [] f = "anchor" -> JStr("x")
    [] f = "overlaying" -> JStr("y3")
    [] f = "side" -> JStr("left")
    [] OTHER -> JStr("log")
SecondAxes == {[f \in fields |-> SnapshotValue(f)] : fields \in SUBSET SnapshotFields}
PrimaryAxes == {EmptyObj, "yaxis" :> (("type" :> JStr("log")) @@ ("autorange" :> JTrue))}
ThirdAxes == {EmptyObj, "yaxis3" :> (("position" :> JNum("0")) @@ ("type" :> JStr("linear")))}
Snapshots ==
  {("xaxis" :> ("autorange" :> JTrue)) @@ ("traceVisibility" :> <<>>)
     @@ y1 @@ ("yaxis2" :> y2) @@ y3 :
   y1 \in PrimaryAxes, y2 \in SecondAxes, y3 \in ThirdAxes}

InitRestore ==
  /\ FirstRender
  /\ arg \in Snapshots
  /\ out = NotApplied

\* restoreSavedZoom on a stored snapshot, and the second pass onInitialized
\* derives from its layout settings
Restore ==
  /\ out = NotApplied
  /\ LET result == restoreSavedZoom(CHARTS[1] :> arg, CHARTS[1])
     IN  out' = Applied("restoreSavedZoom",
                        [layoutSettings |-> result.layoutSettings,
                         posAxes |-> posAxes(result.layoutSettings),
                         secondPass |-> secondPass(result.layoutSettings)])
  /\ UNCHANGED <<drawVars, arg, selectedChartId, phase, fetches, loaded, graphDiv, savedZooms,
                 suppressRelayoutSaves, timers, restore, last>>

NextRestore == Restore

SpecRestore == InitRestore /\ [][NextRestore]_vars

\* ------------------------------------- the dashboard order
\* (src/src/components/CsvDashboard.tsx)  What localStorage holds under
\* ORDER_KEY: nothing, the empty string, a text that is not JSON, JSON that
\* is not an array, or a JSON array of strings.
ALL_IDS == <<"sopr", "profit", "mvrv", "rcap", "rprice">>
StoredIds == {"sopr", "profit", "rprice", "supply"}
StoredOrders ==
  {[kind |-> k, list |-> <<>>] : k \in {"missing", "empty", "text", "object"}}
  \cup {[kind |-> "array", list |-> l] :
          l \in UNION {[1..n -> StoredIds] : n \in 0..MaxStored}}

\* isValidId accepting every value.
isValidIdAny(v) == TRUE

\* ALL_IDS.includes(v)
isValidId(v) == \E i \in 1..Len(ALL_IDS) : ALL_IDS[i] = v

\* parsed.filter(isValidId)
RECURSIVE FilterValid(_)
FilterValid(parsed) ==
  IF parsed = <<>> THEN <<>>
  ELSE (IF isValidId(Head(parsed)) THEN <<Head(parsed)>> ELSE <<>>)
       \o FilterValid(Tail(parsed))

\* Array.from(new Set(list)): the first occurrence of each value, in order
RECURSIVE ArrayFromSet(_)
ArrayFromSet(list) ==
  IF list = <<>> THEN <<>>
  ELSE LET front == ArrayFromSet(SubSeq(list, 1, Len(list) - 1))
           v == list[Len(list)]
       IN  IF \E i \in 1..Len(front) : front[i] = v THEN front ELSE Append(front, v)

DefaultOrder == <<"sopr">>

\* The initializer of the order state.  getItem gives null for a missing
\* key; JSON.parse throws on a text that is not JSON and .filter throws on
\* a value that is not an array, and both are caught.
initialOrder(raw) ==
  IF raw.kind \in {"missing", "empty"} THEN DefaultOrder
  ELSE IF raw.kind \in {"text", "object"} THEN DefaultOrder
  ELSE LET cleaned == ArrayFromSet(FilterValid(raw.list))
       IN  IF Len(cleaned) >= 1 THEN cleaned ELSE DefaultOrder

InitOrder ==
  /\ FirstRender
  /\ arg \in StoredOrders
  /\ out = NotApplied

LoadOrder ==
  /\ out = NotApplied
  /\ out' = Applied("order", initialOrder(arg))
  /\ UNCHANGED <<drawVars, arg, selectedChartId, phase, fetches, loaded, graphDiv, savedZooms,
                 suppressRelayoutSaves, timers, restore, last>>

NextOrder == LoadOrder

SpecOrder == InitOrder /\ [][NextOrder]_vars

\* ------------------------------------- editing the dashboard order
\* (src/src/components/CsvDashboard.tsx)  The order, draftOrder, editing and
\* listMode states and the dragSrc and listDragIdx refs, held in out.value;
\* began and before are history: the order when the edit session began and
\* the order before the last save or cancel.  Array positions are counted
\* from 0 as in the source; null is "" for dragSrc, -1 for listDragIdx and
\* <<>> for draftOrder (<<order>> when set).
DashIds == StoredIds \cap {ALL_IDS[i] : i \in 1..Len(ALL_IDS)}
Slots == 0..(Len(ALL_IDS) - 1)
UndefinedId == "undefined"
InitialOrders == {initialOrder(raw) : raw \in StoredOrders}

Elements(list) == {list[i] : i \in 1..Len(list)}
\* list.indexOf(v)
indexOf(list, v) ==
  IF v \in Elements(list)
  THEN (CHOOSE i \in 1..Len(list) : list[i] = v /\ \A j \in 1..(i - 1) : list[j] # v) - 1
  ELSE -1
\* what list.splice(start, 1) returns, and the list it leaves
Spliced(list, start) == IF start < Len(list) THEN <<list[start + 1]>> ELSE <<>>
SpliceOut(list, start) ==
  IF start < Len(list)
  THEN SubSeq(list, 1, start) \o SubSeq(list, start + 2, Len(list))
  ELSE list
\* the list after list.splice(start, 0, ...items)
SpliceIn(list, start, items) ==
  LET at == IF start > Len(list) THEN Len(list) ELSE start
  IN  SubSeq(list, 1, at) \o items \o SubSeq(list, at + 1, Len(list))
\* the list with the entries at idx and idx + 1 exchanged
Swapped(list, idx) ==
  [i \in 1..Len(list) |->
     IF i = idx + 1 THEN list[idx + 2] ELSE IF i = idx + 2 THEN list[idx + 1] ELSE list[i]]

\* cancelEdit leaving the order as edited.
cancelledOrderKept(order, draftOrder) == order

\* if (draftOrder) setOrder(draftOrder)
cancelledOrder(order, draftOrder) == IF draftOrder # <<>> THEN draftOrder[1] ELSE order

\* const [moved] = next.splice(from, 1): undefined when nothing is at from
Moved(order, from) == IF Spliced(order, from) = <<>> THEN UndefinedId ELSE order[from + 1]

Dash == out.value
\* the slot shows the 'Add a chart' panel: const id = order[slotIdx]; if (id) ...
EmptySlot(slotIdx) ==
  IF slotIdx >= Len(Dash.order) THEN TRUE ELSE Dash.order[slotIdx + 1] = UndefinedId

InitDash ==
  /\ FirstRender
  /\ arg = <<>>
  /\ \E o \in InitialOrders :
       out = Applied("dashboard",
                     [order |-> o, draftOrder |-> <<>>, editing |-> FALSE,
                      listMode |-> FALSE, dragSrc |-> "", listDragIdx |-> -1,
                      began |-> <<>>, before |-> <<>>])

\* A handler has run and left the dashboard states as d (op: "beginEdit",
\* "saveEdit", "cancelEdit", or "edit" for the others).
DashStep(op, d) ==
  /\ out' = Applied("dashboard", d)
  /\ last' = Quiet(op, "")
  /\ UNCHANGED <<drawVars, arg, selectedChartId, phase, fetches, loaded, graphDiv, savedZooms,
                 suppressRelayoutSaves, timers, restore>>

beginEdit(isSmall) ==
  /\ ~Dash.editing
  /\ DashStep("beginEdit", [Dash EXCEPT !.draftOrder = <<Dash.order>>, !.editing = TRUE,
                                        !.listMode = isSmall, !.began = Dash.order,
                                        !.before = <<>>])

saveEdit ==
  /\ Dash.editing
  /\ DashStep("saveEdit", [Dash EXCEPT !.draftOrder = <<>>, !.editing = FALSE,
                                       !.before = Dash.order])

cancelEdit ==
  /\ Dash.editing
  /\ DashStep("cancelEdit", [Dash EXCEPT !.order = cancelledOrder(Dash.order, Dash.draftOrder),
                                         !.draftOrder = <<>>, !.editing = FALSE,
                                         !.before = Dash.order])

\* the List Mode button
ToggleListMode ==
  /\ Dash.editing
  /\ DashStep("edit", [Dash EXCEPT !.listMode = ~@])

\* a card is picked up
handleDragStart(id) ==
  /\ Dash.editing /\ ~Dash.listMode
  /\ id \in Elements(Dash.order)
  /\ DashStep("edit", [Dash EXCEPT !.dragSrc = id])

\* a drop on the card of id
handleDrop(id) ==
  LET src == Dash.dragSrc
      from == indexOf(Dash.order, src)
      to == indexOf(Dash.order, id)
  IN  /\ Dash.editing /\ ~Dash.listMode
      /\ id \in Elements(Dash.order) \ {UndefinedId}
      /\ DashStep("edit",
           IF src = "" \/ src = id \/ from = -1 \/ to = -1 THEN Dash
           ELSE [Dash EXCEPT !.order = SpliceIn(SpliceOut(@, from), to, Spliced(@, from)),
                             !.dragSrc = ""])

\* a drop on the empty slot targetIdx
handleDropEmpty(targetIdx) ==
  LET src == Dash.dragSrc
      from == indexOf(Dash.order, src)
      last0 == Len(Dash.order) - 1
      least == IF targetIdx < last0 THEN targetIdx ELSE last0
      to == IF least > 0 THEN least ELSE 0
  IN  /\ Dash.editing /\ ~Dash.listMode
      /\ EmptySlot(targetIdx)
      /\ DashStep("edit",
           IF src = "" \/ from = -1 THEN Dash
           ELSE [Dash EXCEPT !.order = SpliceIn(SpliceOut(@, from), to, Spliced(@, from)),
                             !.dragSrc = ""])

\* the Remove button of row or card idx
removeAt(idx) ==
  /\ Dash.editing
  /\ idx < Len(Dash.order)
  /\ Dash.listMode \/ ~EmptySlot(idx)
  /\ DashStep("edit", [Dash EXCEPT !.order = SpliceOut(@, idx)])

\* the add select of the list (idx = order.length) or the Add button of the
\* empty slot idx
addAt(idx, id) ==
  /\ Dash.editing
  /\ Len(Dash.order) < MaxOrderLen
  /\ IF Dash.listMode
     THEN idx = Len(Dash.order) /\ Len(Dash.order) < Len(ALL_IDS) /\ id \notin Elements(Dash.order)
     ELSE EmptySlot(idx)
  /\ DashStep("edit",
       IF ~isValidId(id) \/ id \in Elements(Dash.order) THEN Dash
       ELSE [Dash EXCEPT !.order = SpliceIn(@, idx, <<id>>)])

moveUp(idx) ==
  /\ Dash.editing
  /\ idx < Len(Dash.order)
  /\ DashStep("edit",
       IF idx <= 0 THEN Dash ELSE [Dash EXCEPT !.order = Swapped(@, idx - 1)])

moveDown(idx) ==
  /\ Dash.editing
  /\ idx < Len(Dash.order)
  /\ DashStep("edit",
       IF idx >= Len(Dash.order) - 1 THEN Dash ELSE [Dash EXCEPT !.order = Swapped(@, idx)])

\* a row of the list is picked up
handleListDragStart(idx) ==
  /\ Dash.editing /\ Dash.listMode
  /\ idx < Len(Dash.order)
  /\ DashStep("edit", [Dash EXCEPT !.listDragIdx = idx])

\* a drop on row idx of the list
handleListDrop(idx) ==
  LET from == Dash.listDragIdx
      next == SpliceIn(SpliceOut(Dash.order, from), idx, <<Moved(Dash.order, from)>>)
  IN  /\ Dash.editing /\ Dash.listMode
      /\ idx < Len(Dash.order)
      /\ (from # -1 /\ from # idx) => Len(next) <= MaxOrderLen
      /\ DashStep("edit",
           IF from = -1 \/ from = idx THEN Dash
           ELSE [Dash EXCEPT !.order = next, !.listDragIdx = -1])

NextDash ==
  \/ \E isSmall \in BOOLEAN : beginEdit(isSmall)
  \/ saveEdit
  \/ cancelEdit
  \/ ToggleListMode
  \/ \E id \in DashIds : handleDragStart(id)
  \/ \E id \in DashIds : handleDrop(id)
  \/ \E targetIdx \in Slots : handleDropEmpty(targetIdx)
  \/ \E idx \in Slots : removeAt(idx)
  \/ \E idx \in Slots, id \in DashIds : addAt(idx, id)
  \/ \E idx \in Slots : moveUp(idx)
  \/ \E idx \in Slots : moveDown(idx)
  \/ \E idx \in Slots : handleListDragStart(idx)
  \/ \E idx \in Slots : handleListDrop(idx)

SpecDash == InitDash /\ [][NextDash]_vars

\* ------------------------------------- onRelayout on its own
\* Relayout events reaching onRelayout: entries the interpreter reads, axis
\* geometry entries, and entries neither reads, with the counter armed or not.
GeometryEntries ==
  {Entry(<<"yaxis2", "position">>, JNum("0.9")),
   Entry(<<"yaxis", "side">>, JStr("right")),
   Entry(<<"yaxis3", "anchor">>, JStr("free")),
   Entry(<<"yaxis2", "overlaying">>, JStr("y")),
   Entry(<<"yaxis", "domain">>, JArr(<<"c", "d">>)),
   Entry(<<"xaxis", "position">>, JNum("0")),
   Entry(<<"xaxis", "domain">>, JArr(<<"c", "d">>)),
   Entry(<<"yaxis2", "domain[0]">>, JNum("0")),
   Entry(<<"yaxis", "title.text">>, JStr("USD"))}

OnRelayoutEntries ==
  GeometryEntries
  \cup {Entry(<<"xaxis", "range[0]">>, JStr("2022-01-01")),
        Entry(<<"yaxis2", "range">>, JArr(<<"c">>)),
        Entry(<<"yaxis", "autorange">>, JTrue),
        Entry(<<"zaxis", "autorange">>, JTrue),
        Entry(<<"", "autosize">>, JTrue)}

OnRelayoutEvents ==
  {evt \in UNION {[1..n -> OnRelayoutEntries] : n \in 0..MaxKeys} : DistinctKeys(evt)}

InitRelayout ==
  /\ selectedChartId = CHARTS[1]
  /\ phase = "ready"
  /\ fetches = {}
  /\ loaded = 1
  /\ graphDiv = InstallListeners(NewGraph(CHARTS[1], 1), TRUE)
  /\ savedZooms = EmptyObj
  /\ suppressRelayoutSaves \in {0, 1}
  /\ timers = [c \in ChartIds |-> 0]
  /\ restore = IdleRestore
  /\ drawingMode = "off"
  /\ selectedYAxisForDraw = "yaxis"
  /\ activeLine = JNull
  /\ drawingsByChart = [c \in ChartIds |-> <<>>]
  /\ gestureChart = ""
  /\ now = 0
  /\ last = Quiet("initialized", CHARTS[1])
  /\ arg \in OnRelayoutEvents
  /\ out = NotApplied

\* onRelayout(evt) with evt = arg
OnRelayout ==
  LET sched == RelayoutSchedules(suppressRelayoutSaves, arg)
  IN  /\ phase = "ready"
      /\ last.op # "relayout"
      /\ sched => TimerCount < MaxTimers
      /\ suppressRelayoutSaves' = AfterRelayout(suppressRelayoutSaves)
      /\ timers' = IF sched THEN Schedule(timers, selectedChartId) ELSE timers
      /\ last' = Handled("relayout", selectedChartId, "user", suppressRelayoutSaves,
                         arg, NoCmd)
      /\ UNCHANGED <<drawVars, arg, out, selectedChartId, phase, fetches, loaded,
                     graphDiv, savedZooms, restore>>

NextRelayout == OnRelayout

SpecRelayout == InitRelayout /\ [][NextRelayout]_vars

\* ------------------------------------- the load effect and the props of Plot
\* The data, layout, config and error states on their own (held in out.value),
\* with the documents a chart path can serve: objects with a data array and
\* with or without layout and config, bare arrays of series, and objects
\* without a data array.  arg is the document parsed last.
Undefined == [t |-> "undefined", v |-> <<>>]
LayoutA ==
  ("title" :> JStr("Realised Cap")) @@ ("width" :> JNum("900"))
  @@ ("yaxis" :> ("type" :> JStr("log")))
  @@ ("legend" :> ("font" :> ("size" :> 20)))
  @@ ("margin" :> ("t" :> 120))
LayoutB ==
  ("xaxis" :> ("type" :> JStr("date"))) @@ ("updatemenus" :> JArr(<<"menu">>))
ConfigA == ("scrollZoom" :> JTrue)
ConfigB == ("displaylogo" :> JTrue)
SeriesArrays == {JArr(<<PriceTrace>>), JArr(<<PriceTrace, MetricTrace>>)}

JsonObjects ==
  {d @@ l @@ c :
     d \in {("data" :> a) : a \in SeriesArrays} \cup {("data" :> JStr("none")), <<>>},
     l \in {("layout" :> LayoutA), ("layout" :> LayoutB), <<>>},
     c \in {("config" :> ConfigA), ("config" :> ConfigB), <<>>}}
JsonDocuments == JsonObjects \cup SeriesArrays

\* Array.isArray(json)
IsArrayRoot(json) == "t" \in DOMAIN json
\* json[k]: undefined for a key the object does not have, and for any key
\* of an array
Prop(json, k) ==
  IF ~IsArrayRoot(json) /\ k \in DOMAIN json THEN json[k] ELSE Undefined

isPlotlyBundle(json) == Prop(json, "data").t = "array"

LoadState(data, layout, config, error) ==
  [data |-> data, layout |-> layout, config |-> config, error |-> error]

\* load() from the parsed document on: the states after its set calls
load(st, json) ==
  IF isPlotlyBundle(json)
  THEN LoadState(json["data"], Prop(json, "layout"), Prop(json, "config"), JNull)
  ELSE IF IsArrayRoot(json)
  THEN LoadState(json, st.layout, st.config, JNull)
  ELSE IF Prop(json, "data").t = "array"
  THEN LoadState(json["data"], Prop(json, "layout"), Prop(json, "config"), JNull)
  ELSE [st EXCEPT !.error = JStr("Unrecognized JSON structure for Plotly")]

\* obj[k] ?? {}
SubObject(obj, k) == IF k \in DOMAIN obj THEN obj[k] ELSE EmptyObj
\* Math.max(lo, Math.round(n * 0.85))
Scaled(lo, n) == LET r == (n * 85 + 50) \div 100 IN IF r > lo THEN r ELSE lo

\* finalLayout: the layout prop of Plot
finalLayout(layout) ==
  LET base == IF layout = Undefined THEN EmptyObj ELSE layout
      restLayout == [k \in DOMAIN base \ {"width", "title", "updatemenus"} |-> base[k]]
      existingLegend == SubObject(restLayout, "legend")
      existingLegendFont == SubObject(existingLegend, "font")
      baseFontSize == IF "size" \in DOMAIN existingLegendFont
                      THEN existingLegendFont["size"] ELSE 12
      legend == ("orientation" :> JStr("h")) @@ ("x" :> JNum("0.5"))
                @@ ("xanchor" :> JStr("center")) @@ ("y" :> JNum("1.02"))
                @@ ("yanchor" :> JStr("bottom"))
                @@ ("font" :> (("size" :> Scaled(8, baseFontSize)) @@ existingLegendFont))
                @@ existingLegend
      existingMargin == SubObject(restLayout, "margin")
      topMarginDefault == IF "t" \in DOMAIN existingMargin THEN existingMargin["t"] ELSE 80
      margin == ("t" :> Scaled(80, topMarginDefault)) @@ existingMargin
  IN  ("autosize" :> JTrue) @@ ("height" :> JNum("700"))
      @@ ("legend" :> legend) @@ ("margin" :> margin) @@ ("updatemenus" :> JArr(<<>>))
      @@ restLayout

\* the config prop of Plot: the fixed options, then ...config
plotConfig(config) ==
  (IF config = Undefined THEN EmptyObj ELSE config)
  @@ ("responsive" :> JTrue) @@ ("displaylogo" :> JFalse)
  @@ ("displayModeBar" :> JFalse) @@ ("showTips" :> JFalse)

\* Plot is rendered: no error and data not null
PlotRendered(st) == st.error = JNull /\ st.data # JNull

InitLoad ==
  /\ FirstRender
  /\ arg = <<>>
  /\ out = Applied("state", LoadState(JNull, Undefined, Undefined, JNull))

\* the fetch of the selected chart's path has given json and load() goes on
\* from the parse
LoadJson(json) ==
  /\ out.value.data = JNull
  /\ out.value.error = JNull
  /\ arg' = json
  /\ out' = Applied("state", load(out.value, json))
  /\ last' = Quiet("load", selectedChartId)
  /\ UNCHANGED <<drawVars, selectedChartId, phase, fetches, loaded, graphDiv, savedZooms,
                 suppressRelayoutSaves, timers, restore>>

\* nav-item onClick for another chart, as far as these states go:
\* setError(null); setData(null)
NavClickOther ==
  /\ PlotRendered(out.value)
  /\ out' = Applied("state", [out.value EXCEPT !.data = JNull, !.error = JNull])
  /\ last' = Quiet("nav", selectedChartId)
  /\ UNCHANGED <<drawVars, arg, selectedChartId, phase, fetches, loaded, graphDiv, savedZooms,
                 suppressRelayoutSaves, timers, restore>>

NextLoad ==
  \/ \E json \in JsonDocuments : LoadJson(json)
  \/ NavClickOther

SpecLoad == InitLoad /\ [][NextLoad]_vars

\* ================================================================ claims
\* The x-axis and the y-axes a snapshot stores.
SnapshotAxes(snap) == {a \in {"xaxis"} \cup YAxisNames : Has(snap, a)}
RangeFields == {"range", "autorange"}

\* C1: the layout command restore issues when a chart is re-activated sets
\* range and autorange, for the x-axis and for every y-axis stored in the
\* chart's snapshot, to exactly the values of the last capture stored for
\* that chart (and sets neither where the capture has none).
C1_RestoreEqualsLastCapture ==
  last.cmd.pass = 2 =>
    \A a \in SnapshotAxes(last.cmd.from), f \in RangeFields :
       IF Has(last.cmd.from[a], f)
       THEN /\ HasKey(last.cmd.arg, <<a, f>>)
            /\ GetKey(last.cmd.arg, <<a, f>>) = last.cmd.from[a][f]
       ELSE ~HasKey(last.cmd.arg, <<a, f>>)

\* The first chart was zoomed, left and re-activated; the command carries the
\* zoomed x-range and the secondary axis of the capture.
C1_Witness ==
  /\ last.cmd.pass = 2
  /\ last.cmd.ok
  /\ last.key = CHARTS[1]
  /\ Has(last.cmd.from, "yaxis2")
  /\ last.cmd.from["xaxis"]["range"] = JArr(<<ZoomX0, ZoomX1>>)
  /\ GetKey(last.cmd.arg, <<"yaxis", "autorange">>) = JFalse

\* C2: a deferred capture scheduled while one chart was active never writes
\* a snapshot once another chart is the active one.
C2_StaleCaptureDropped ==
  ~(last.op = "timer" /\ last.key # selectedChartId /\ last.wrote)

\* C3: the relayout event that echoes a layout command of restore (pass 2 or
\* pass 3) never schedules a capture.
C3_RestoreEchoSuppressed ==
  last.origin = "restore" => ~last.scheduled

\* C4: the suppression counter is never negative, and a relayout event that
\* arrives while it is positive lowers it by exactly one and schedules
\* nothing.
C4_CounterNeverNegative ==
  /\ suppressRelayoutSaves >= 0
  /\ (last.origin # "" /\ last.before > 0) =>
       /\ suppressRelayoutSaves = last.before - 1
       /\ ~last.scheduled

\* A user's relayout event met the counter at one and left it at zero.
C4_Witness ==
  /\ last.origin = "user"
  /\ last.before = 1
  /\ suppressRelayoutSaves = 0

\* C5: a user's relayout event that carries a range, autorange or
\* axis-geometry change schedules a capture of the active chart, and so does
\* a legend-item toggle.
C5_UserEventCaptured ==
  /\ (last.origin = "user" /\ last.carries) => last.scheduled
  /\ last.op = "legend" => timers[last.key] > 0

\* C6: a click on a nav item stores exactly one snapshot, that of the view
\* being left and under the key of the chart being left (nothing when no
\* graph with a layout is rendered), and does so before the restore of the
\* chart being activated starts: after the click the graph is unmounted and
\* no restore is running.
C6_SwitchCapturesLeftChart ==
  [][last'.op = "nav" =>
       /\ IF HasLayout(graphDiv)
          THEN /\ Has(savedZooms', selectedChartId)
               /\ savedZooms'[selectedChartId] = zoomSettings(graphDiv)
               /\ \A c \in ChartIds \ {selectedChartId} :
                     /\ Has(savedZooms', c) <=> Has(savedZooms, c)
                     /\ Has(savedZooms, c) => savedZooms'[c] = savedZooms[c]
          ELSE savedZooms' = savedZooms
       /\ phase' = "loading"
       /\ restore'.pc = "idle"
       /\ ~HasLayout(graphDiv')]_vars

\* The second chart was left for the first one with a graph on screen, and
\* its snapshot is in the store.
C6_Witness ==
  /\ last.op = "nav"
  /\ last.wrote
  /\ last.key = CHARTS[2]
  /\ selectedChartId = CHARTS[1]
  /\ Has(savedZooms, CHARTS[2])
  /\ phase = "loading"

\* C8: when a chart with a stored snapshot has been initialised, restore has
\* issued the visibility command carrying the snapshot's traceVisibility
\* (resized to the series on screen).
C8_VisibilityAlwaysRestored ==
  (last.op = "initialized" /\ Has(savedZooms, last.key)) =>
     /\ last.cmd.pass = 1
     /\ last.cmd.arg = normalizedVisibility(savedZooms[last.key]["traceVisibility"],
                                            last.cmd.count)

\* C9: every key of a layout command of restore (pass 2, pass 3) names the
\* x-axis or a y-axis the snapshot stores.
C9_OnlyCapturedAxes ==
  last.cmd.pass \in {2, 3} =>
    \A k \in Keys(last.cmd.arg) : k[1] \in SnapshotAxes(last.cmd.from)

\* Pass 3 ran for the secondary axis of a snapshot that does not store the
\* third y-axis, which the layout on screen has.
C9_Witness ==
  /\ last.cmd.pass = 3
  /\ last.cmd.ok
  /\ <<"yaxis2", "position">> \in Keys(last.cmd.arg)
  /\ ~Has(last.cmd.from, "yaxis3")
  /\ Has(graphDiv.layout, "yaxis3")

NormalizeApplied == out.fn = "normalizedVisibility"

C10_EndpointsMerged ==
  out.fn = "extractZoomFromRelayoutEvent" =>
    \A axis \in XYAxisNames :
       (Len(arg) = 2 /\ Keys(arg) = {<<axis, "range[0]">>, <<axis, "range[1]">>}) =>
          out.value =
            (axis :> (("range" :> JArr(<<Token(GetKey(arg, <<axis, "range[0]">>)),
                                         Token(GetKey(arg, <<axis, "range[1]">>))>>))
                      @@ ("autorange" :> JFalse)))

\* The upper endpoint of the secondary axis came first in the event.
C10_Witness ==
  /\ out.fn = "extractZoomFromRelayoutEvent"
  /\ Len(arg) = 2
  /\ arg[1].key = <<"yaxis2", "range[1]">>
  /\ arg[2].key = <<"yaxis2", "range[0]">>
  /\ out.value["yaxis2"]["range"] = JArr(<<"2022-01-01", "7.5">>)

InterpretApplied == out.fn = "extractZoomFromRelayoutEvent"

\* The keys the interpreter recognizes: an indexed range endpoint, a range
\* array of two elements, an autorange flag, each on an x- or y-axis name.
RecognizedEntry(e) ==
  /\ e.key[1] \in XYAxisNames
  /\ \/ e.key[2] \in {"range[0]", "range[1]", "autorange"}
     \/ e.key[2] = "range" /\ e.value.t = "array" /\ Len(e.value.v) = 2
RecognizedFor(evt, axis) ==
  {i \in 1..Len(evt) : RecognizedEntry(evt[i]) /\ evt[i].key[1] = axis}

\* C11: when the only recognized key of an event for an axis is
\* '<axis>.autorange', the axis entry of the result is exactly
\* { autorange: Boolean(value) }: no range field.
C11_AutorangeAlone ==
  InterpretApplied =>
    \A i \in 1..Len(arg) :
       (arg[i].key[2] = "autorange" /\ RecognizedFor(arg, arg[i].key[1]) = {i}) =>
          /\ arg[i].key[1] \in DOMAIN out.value
          /\ out.value[arg[i].key[1]]
               = ("autorange" :> (IF Truthy(arg[i].value) THEN JTrue ELSE JFalse))

\* The flag of the secondary axis came as the number 0 beside a range key
\* of the same axis that is not a two-element array.
C11_Witness ==
  /\ InterpretApplied
  /\ Len(arg) = 2
  /\ arg[1] = Entry(<<"yaxis2", "range">>, JArr(<<"c">>))
  /\ arg[2] = Entry(<<"yaxis2", "autorange">>, JNum("0"))
  /\ out.value = ("yaxis2" :> ("autorange" :> JFalse))

\* C12: the result has an entry exactly for the axes a recognized key of the
\* event names; keys that are not recognized, among them a range key whose
\* value is not a two-element array, contribute nothing, and an event of
\* such keys alone gives the empty mapping.
C12_UnrecognizedIgnored ==
  InterpretApplied =>
    /\ DOMAIN out.value = {arg[i].key[1] : i \in {j \in 1..Len(arg) : RecognizedEntry(arg[j])}}
    /\ \A i \in 1..Len(arg) :
          ~RecognizedEntry(arg[i]) =>
             out.value = extractZoomFromRelayoutEvent(
                           SubSeq(arg, 1, i - 1) \o SubSeq(arg, i + 1, Len(arg)))
    /\ (\A i \in 1..Len(arg) : ~RecognizedEntry(arg[i])) => out.value = EmptyObj

\* An event of two keys, neither recognized, gave the empty mapping.
C12_Witness ==
  /\ InterpretApplied
  /\ Len(arg) = 2
  /\ arg[1] = Entry(<<"xaxis", "range">>, JArr(<<"c">>))
  /\ arg[2] = Entry(<<"zaxis", "autorange">>, JTrue)
  /\ out.value = EmptyObj

\* ------------------------------------- claims on the drawing overlay
PointerDown == \E e \in PointerDowns : startDrawing(e)
Appended(chartId) == Len(drawingsByChart'[chartId]) = Len(drawingsByChart[chartId]) + 1
LastOf(seq) == seq[Len(seq)]

\* C13: the y axis of a line is the one selected at pointer-down; it stays
\* through selector changes and moves, the finalized line carries it, and
\* every conversion and projection of the line is made under it.
C13_AxisBoundAtPointerDown ==
  [][/\ (PointerDown /\ activeLine' # activeLine)
          => activeLine'.yAxisName = selectedYAxisForDraw
     /\ (activeLine # JNull /\ activeLine' # JNull /\ ~PointerDown)
          => activeLine'.yAxisName = activeLine.yAxisName
     /\ \A e \in PointerEvents : (moveDrawing(e) /\ activeLine' # activeLine)
          => activeLine'.y1 = p2l(e.clientY - AxisOffset(activeLine.yAxisName))
     /\ \A c \in ChartIds : Appended(c)
          => /\ activeLine # JNull
             /\ LastOf(drawingsByChart'[c]).yAxisName = activeLine.yAxisName
             /\ \E e \in PointerEvents :
                  LastOf(drawingsByChart'[c]).y1
                    = p2l(e.clientY - AxisOffset(activeLine.yAxisName))
     /\ (Paint /\ activeLine # JNull /\ out'.value.active # JNull)
          => out'.value.active.y2
               = l2p(activeLine.y1) + AxisOffset(activeLine.yAxisName)
    ]_vars

\* a gesture bound to yaxis2 has been moved and painted while the selector
\* shows yaxis
C13_Witness ==
  /\ activeLine # JNull
  /\ activeLine.yAxisName = "yaxis2"
  /\ selectedYAxisForDraw = "yaxis"
  /\ activeLine.y1 # activeLine.y0
  /\ out.fn = "overlay"
  /\ out.value.active # JNull
  /\ out.value.active.y2 # out.value.active.y1

Active == activeLine # JNull /\ drawingMode = "line"
Available(yAxisName) == getAxisObjects(graphDiv, yAxisName) # JNull
Front(seq) == SubSeq(seq, 1, Len(seq) - 1)
\* the completed line of a pointer-up at e: the active line ending at e
CompletedAt(line, e) ==
  /\ line.x0 = activeLine.x0
  /\ line.y0 = activeLine.y0
  /\ line.yAxisName = activeLine.yAxisName
  /\ line.x1 = p2l(e.clientX - AxisOffset("xaxis"))
  /\ line.y1 = p2l(e.clientY - AxisOffset(activeLine.yAxisName))
FinalizedAt(e) ==
  /\ Appended(selectedChartId)
  /\ Front(drawingsByChart'[selectedChartId]) = drawingsByChart[selectedChartId]
  /\ CompletedAt(LastOf(drawingsByChart'[selectedChartId]), e)

\* C14: a pointer-up while a line is active in drawing mode appends
\* the completed line at the end of the current chart's sequence and clears
\* the active line.
C14_PointerUpFinalizes ==
  [][\A e \in PointerEvents : (endDrawing(e) /\ Active)
        => FinalizedAt(e) /\ activeLine' = JNull]_vars

\* C15: a gesture started on one chart never appends a line to another
\* chart's sequence and is never painted as the in-progress line of another
\* chart.
C15_GestureStaysOnItsChart ==
  [][/\ \A c \in ChartIds : Appended(c) => c = gestureChart
     /\ (Paint /\ out'.value.active # JNull) => selectedChartId = gestureChart
    ]_vars

\* C16: a finalized line is never changed nor reordered: every step leaves
\* each chart's sequence as it was, or appends one line at its end, or is a
\* clear-all on that chart that empties it.
C16_AppendOnly ==
  [][\A c \in ChartIds :
       \/ drawingsByChart'[c] = drawingsByChart[c]
       \/ Appended(c) /\ Front(drawingsByChart'[c]) = drawingsByChart[c]
       \/ ClearDrawings /\ c = selectedChartId /\ drawingsByChart'[c] = <<>>
    ]_vars

\* two different lines are stored for the first chart after a pointer-up
C16_Witness ==
  /\ last.op = "pointerUp"
  /\ activeLine = JNull
  /\ drawingMode = "line"
  /\ Len(drawingsByChart[CHARTS[1]]) = 2
  /\ drawingsByChart[CHARTS[1]][1].x1 # drawingsByChart[CHARTS[1]][1].x0
  /\ drawingsByChart[CHARTS[1]][2].x1 = drawingsByChart[CHARTS[1]][2].x0

\* C17: clear-all empties the sequence of the selected chart and leaves the
\* sequence of every other chart as it was.
C17_ClearOnlyCurrentChart ==
  [][ClearDrawings
       => /\ drawingsByChart'[selectedChartId] = <<>>
          /\ \A c \in ChartIds \ {selectedChartId} :
               drawingsByChart'[c] = drawingsByChart[c]]_vars

\* the first chart has just been cleared while the second holds a line
C17_Witness ==
  /\ last.op = "clear"
  /\ last.key = CHARTS[1]
  /\ drawingsByChart[CHARTS[1]] = <<>>
  /\ drawingsByChart[CHARTS[2]] # <<>>

StoredOnScreen == drawingsByChart[selectedChartId]

\* C18: a paint made while the projection is unavailable draws no line for
\* the stored lines and the active line it cannot project, draws the others,
\* and leaves every stored sequence and the active line as they were.
C18_PaintSkipsUnprojectable ==
  [][Paint
       => /\ UNCHANGED <<drawingsByChart, activeLine>>
          /\ DOMAIN out'.value.drawings = DOMAIN StoredOnScreen
          /\ \A i \in DOMAIN StoredOnScreen :
               (out'.value.drawings[i] = JNull) <=> ~Available(StoredOnScreen[i].yAxisName)
          /\ activeLine # JNull
               => ((out'.value.active = JNull) <=> ~Available(activeLine.yAxisName))
    ]_vars

\* the chart with a stored line and an active line has been painted before
\* its graph div was set: neither line is drawn
C18_Witness ==
  /\ phase = "mounted"
  /\ out.fn = "overlay"
  /\ StoredOnScreen # <<>>
  /\ activeLine # JNull
  /\ ~Available(activeLine.yAxisName)
  /\ out.value.drawings[1] = JNull
  /\ out.value.active = JNull

PointerStep ==
  \/ \E e \in PointerDowns : startDrawing(e)
  \/ \E e \in PointerEvents : moveDrawing(e) \/ endDrawing(e)

\* C19: while the drawing mode is off, a pointer-down, a pointer-move and a
\* pointer-up on the overlay create and change no active line and change no
\* stored sequence.
C19_InertWhenOff ==
  [][(drawingMode = "off" /\ PointerStep)
       => UNCHANGED <<activeLine, drawingsByChart>>]_vars

\* a pointer-up has arrived with the mode off and found the line of a
\* gesture begun earlier: the line is still active
C19_Witness ==
  /\ drawingMode = "off"
  /\ last.op = "pointerUp"
  /\ activeLine # JNull
  /\ Available(activeLine.yAxisName)

\* the graph div with the computed axis `axis` stripped of its scale function
WithoutScale(gd, axis) ==
  [gd EXCEPT !.fullLayout = [a \in DOMAIN @ |-> IF a = axis THEN FullLayout[a] ELSE @[a]]]
\* the graph div without the computed axis `axis`
WithoutAxis(gd, axis) ==
  [gd EXCEPT !.fullLayout = [a \in DOMAIN @ \ {axis} |-> @[a]]]
Surfaces ==
  LET live == NewGraph(CHARTS[1], 1)
  IN  {NoGraph, Purged(live), live, NewGraph(CHARTS[2], 2),
       WithoutScale(live, "xaxis"), WithoutAxis(live, "xaxis"),
       WithoutScale(live, "yaxis2"), WithoutAxis(live, "yaxis2")}
NoScale(fl, axis) == axis \notin DOMAIN fl \/ "l2p" \notin DOMAIN fl[axis]
Unavailable(gd, yAxisName) ==
  \/ gd.state # "live"
  \/ NoScale(gd.fullLayout, "xaxis")
  \/ NoScale(gd.fullLayout, yAxisName)

\* C20: at a pointer-down the adapter returns null under the selected axis
\* for a surface without a computed layout and for one whose x axis or whose
\* selected y axis is missing or has no scale function; if the surface at
\* hand is one of these the pointer-down creates no line and changes no
\* stored sequence.
C20_UnavailableProjection ==
  [][PointerDown
       => /\ \A gd \in Surfaces \cup {graphDiv} : Unavailable(gd, selectedYAxisForDraw)
               => /\ getAxisObjects(gd, selectedYAxisForDraw) = JNull
                  /\ dataToPixel(gd, 2, 10, selectedYAxisForDraw) = JNull
                  /\ \A e \in PointerDowns :
                       pixelToData(gd, e.clientX, e.clientY, selectedYAxisForDraw) = JNull
          /\ Unavailable(graphDiv, selectedYAxisForDraw)
               => UNCHANGED <<activeLine, drawingsByChart>>
    ]_vars

\* a pointer-down in drawing mode on a ready chart under an axis that has no
\* scale function has created no line
C20_Witness ==
  /\ last.op = "pointerDown"
  /\ phase = "ready"
  /\ drawingMode = "line"
  /\ selectedYAxisForDraw = "yaxis3"
  /\ Unavailable(graphDiv, selectedYAxisForDraw)
  /\ activeLine = JNull

\* C21: for a data point of an axis whose scale functions are mutually
\* inverse, whatever the axis offsets and the origin of the container,
\* converting the point to a pixel, shifting the pixel by the origin and
\* converting it back gives the point.
C21_RoundTrip ==
  out.fn = "pixelToData" => out.value = [x |-> arg.x, y |-> arg.y]

\* a point away from the data origin on axes with different offsets in a
\* container away from the client origin has gone through the round trip
C21_Witness ==
  /\ out.fn = "pixelToData"
  /\ arg.x = p2l(1) /\ arg.y = p2l(MaxPixel)
  /\ arg.xOffset = MaxPixel /\ arg.yOffset = 1
  /\ arg.left = 1 /\ arg.top = MaxPixel

\* C22: a capture replaces the snapshot of the active chart by what this
\* capture read from the surface and leaves the snapshot of every other chart
\* as it was.
C22_CaptureReplacesActiveChart ==
  [][last'.wrote
       => /\ DOMAIN savedZooms' = DOMAIN savedZooms \cup {selectedChartId}
          /\ savedZooms'[selectedChartId] = zoomSettings(graphDiv)
          /\ \A c \in DOMAIN savedZooms \ {selectedChartId} :
               savedZooms'[c] = savedZooms[c]]_vars

CaptureApplied == out.fn = "zoomSettings"
\* the axis tag a series carries when it is bound to the axis
TagOf(axisName) ==
  CASE axisName = "yaxis2" -> "y2"
    [] axisName = "yaxis3" -> "y3"
    [] axisName = "yaxis4" -> "y4"
    [] OTHER -> "y"
Tagged(trace) == "yaxis" \in DOMAIN trace /\ trace["yaxis"] # ""
BoundTo(trace, axisName) ==
  IF Tagged(trace) THEN trace["yaxis"] = TagOf(axisName) ELSE axisName = "yaxis"
InUse(data, axisName) == \E i \in 1..Len(data) : BoundTo(data[i], axisName)
StoredYAxes(snapshot) == DOMAIN snapshot \cap YAxisNames

PositionedSecondary(snapshot) ==
  {a \in SecondaryAxes : Has(snapshot, a) /\ Has(snapshot[a], "position")}

\* C24: the layout command is issued only after the visibility command of
\* the same restore has completed; the corrective command is issued only
\* after the layout command has been accepted, and only when a secondary axis
\* of the snapshot has a position.
C24_PassOrder ==
  [][/\ (restore'.pc = "pass2" /\ restore.pc # "pass2")
          => last'.op = "initialized" /\ last'.cmd.pass = 1
     /\ last'.cmd.pass = 2 => restore.pc = "pass2"
     /\ (restore'.pc = "pass3" /\ restore.pc # "pass3")
          => /\ restore.pc = "pass2"
             /\ last'.cmd.pass = 2 /\ last'.cmd.ok
             /\ PositionedSecondary(restore.from) # {}
     /\ last'.cmd.pass = 3 => restore.pc = "pass3"
    ]_vars

\* the corrective command has been issued for a snapshot whose second y axis
\* has a position
C24_Witness ==
  /\ last.op = "pass3"
  /\ last.cmd.pass = 3
  /\ PositionedSecondary(last.cmd.from) = {"yaxis2"}

Rejected(pass) == last'.cmd.pass = pass /\ ~last'.cmd.ok

\* C25: when the surface rejects the layout command of pass 2 the handler
\* ends its restore there and installs its listeners: the graph keeps the
\* visibility of pass 1 and its layout, nothing is stored or scheduled, no
\* pass is pending, and no later layout command is issued without a new
\* initialisation.
C25_RejectedLayoutContained ==
  [][/\ Rejected(2)
          => /\ graphDiv' = [graphDiv EXCEPT !.listening = TRUE]
             /\ ~graphDiv.listening
             /\ restore' = IdleRestore
             /\ phase' = "ready"
             /\ UNCHANGED <<savedZooms, timers, suppressRelayoutSaves, selectedChartId>>
     /\ last'.cmd.pass \in {2, 3} => restore.pc # "idle"
    ]_vars

\* pass 2 has been rejected on a graph whose second series pass 1 had hidden
\* as the snapshot says
C25_Witness ==
  /\ last.op = "pass2"
  /\ ~last.cmd.ok
  /\ graphDiv.listening
  /\ restore = IdleRestore
  /\ \E i \in 1..Len(graphDiv.data) :
       /\ Has(graphDiv.data[i], "visible")
       /\ graphDiv.data[i]["visible"] # JTrue
       /\ last.cmd.from["traceVisibility"][i] = graphDiv.data[i]["visible"]

RestoreApplied == out.fn = "restoreSavedZoom"
Sets(cmd, axisName, f, value) ==
  HasKey(cmd, <<axisName, f>>) /\ GetKey(cmd, <<axisName, f>>) = value
Captured(snapshot, axisName, f, dflt) ==
  IF f \in DOMAIN snapshot[axisName] THEN snapshot[axisName][f] ELSE dflt

\* C26: for every secondary y axis whose snapshot has a position the
\* corrective command sets the axis's position to the captured value, its
\* anchor to the captured value or "free", its overlaying to the captured
\* value or the primary axis, and its side when one was captured.
C26_CorrectivePass ==
  RestoreApplied =>
    \A a \in PositionedSecondary(arg) :
      /\ a \in out.value.posAxes
      /\ Sets(out.value.secondPass, a, "position", arg[a]["position"])
      /\ Sets(out.value.secondPass, a, "anchor", Captured(arg, a, "anchor", JStr("free")))
      /\ Sets(out.value.secondPass, a, "overlaying", Captured(arg, a, "overlaying", JStr("y")))
      /\ "side" \in DOMAIN arg[a] => Sets(out.value.secondPass, a, "side", arg[a]["side"])

\* the second axis has a position and a side but neither anchor nor
\* overlaying, the third axis has position 0: both are in the corrective
\* command, with the defaults
C26_Witness ==
  /\ RestoreApplied
  /\ DOMAIN arg["yaxis2"] = {"position", "side"}
  /\ PositionedSecondary(arg) = {"yaxis2", "yaxis3"}
  /\ Sets(out.value.secondPass, "yaxis2", "anchor", JStr("free"))
  /\ Sets(out.value.secondPass, "yaxis3", "overlaying", JStr("y"))
  /\ Sets(out.value.secondPass, "yaxis2", "side", JStr("left"))

\* C27: no layout command of restore has a type key for a secondary y axis;
\* the type of the primary y axis is restored when the snapshot has it.
C27_TypeOnPrimaryOnly ==
  RestoreApplied =>
    /\ \A k \in Keys(out.value.layoutSettings) \cup Keys(out.value.secondPass) :
         k[2] = "type" => k[1] = "yaxis"
    /\ ("yaxis" \in DOMAIN arg /\ "type" \in DOMAIN arg["yaxis"])
         => Sets(out.value.layoutSettings, "yaxis", "type", arg["yaxis"]["type"])

\* the snapshot holds a type for all three y axes; the layout command has
\* the primary one alone
C27_Witness ==
  /\ RestoreApplied
  /\ \A a \in {"yaxis", "yaxis2", "yaxis3"} : a \in DOMAIN arg /\ "type" \in DOMAIN arg[a]
  /\ {k \in Keys(out.value.layoutSettings) : k[2] = "type"} = {<<"yaxis", "type">>}
  /\ out.value.secondPass # <<>>

StoredLines == {<<c, i>> : c \in ChartIds, i \in 1..MaxLines}
IsStored(at) == at[2] <= Len(drawingsByChart[at[1]])
LineAt(at) == drawingsByChart[at[1]][at[2]]

\* C28: no two lines stored for a chart share an id, and no stored line
\* shares its id with the active line.
C28_IdsUnique ==
  /\ \A p, q \in StoredLines :
       (IsStored(p) /\ IsStored(q) /\ p[1] = q[1] /\ p # q) => LineAt(p).id # LineAt(q).id
  /\ activeLine # JNull =>
       \A p \in StoredLines : IsStored(p) => LineAt(p).id # activeLine.id

OrderLoaded == out.fn = "order"
Catalog == {ALL_IDS[i] : i \in 1..Len(ALL_IDS)}
Known(list) == {i \in 1..Len(list) : list[i] \in Catalog}
FirstAt(list, v) == CHOOSE i \in 1..Len(list) : list[i] = v /\ \A j \in 1..(i - 1) : list[j] # v
NoDuplicates(list) == \A i, j \in 1..Len(list) : list[i] = list[j] => i = j

\* C29: the initial order holds known ids only, each once.  From a stored
\* array with a known id it is the known ids of the array in the order of
\* their first occurrences (an array of distinct known ids is taken as it
\* is); from anything else it is the default one-chart order.
C29_OrderTolerant ==
  OrderLoaded =>
    /\ \A i \in 1..Len(out.value) : out.value[i] \in Catalog
    /\ NoDuplicates(out.value)
    /\ IF arg.kind = "array" /\ Known(arg.list) # {}
       THEN /\ {out.value[i] : i \in 1..Len(out.value)}
                 = {arg.list[i] : i \in Known(arg.list)}
            /\ \A i, j \in 1..Len(out.value) :
                 i < j => FirstAt(arg.list, out.value[i]) < FirstAt(arg.list, out.value[j])
            /\ (Known(arg.list) = 1..Len(arg.list) /\ NoDuplicates(arg.list))
                 => out.value = arg.list
       ELSE out.value = <<"sopr">>

\* a stored array with an unknown id and a duplicate has given the two known
\* ids in their stored order
C29_Witness ==
  /\ OrderLoaded
  /\ arg.kind = "array"
  /\ arg.list = <<"rprice", "supply", "rprice">> \/ arg.list = <<"profit", "supply", "profit">>
  /\ Len(out.value) = 1
  /\ out.value # <<"sopr">>

GeometryFields == {"position", "side", "anchor", "overlaying", "domain"}
YAxisKeys == {"yaxis", "yaxis2", "yaxis3", "yaxis4"} \X GeometryFields
HasGeometryKey(evt) == \E i \in 1..Len(evt) : evt[i].key \in YAxisKeys
InterpreterOutput(evt) == extractZoomFromRelayoutEvent(evt)
CaptureScheduled == timers'[selectedChartId] = timers[selectedChartId] + 1

\* C30: onRelayout with the suppression unarmed schedules a capture exactly
\* when the interpreter's output for the event is non-empty or the event has
\* a y-axis position, side, anchor, overlaying or domain key, and leaves the
\* counter alone; with the suppression armed it schedules nothing and takes
\* one from the counter.  It changes nothing else.
C30_RelayoutSchedulesCapture ==
  [][OnRelayout =>
       /\ suppressRelayoutSaves = 0 =>
            /\ CaptureScheduled <=> (InterpreterOutput(arg) # EmptyObj \/ HasGeometryKey(arg))
            /\ ~CaptureScheduled => timers' = timers
            /\ suppressRelayoutSaves' = 0
       /\ suppressRelayoutSaves > 0 =>
            /\ timers' = timers
            /\ suppressRelayoutSaves' = suppressRelayoutSaves - 1
       /\ savedZooms' = savedZooms /\ graphDiv' = graphDiv]_vars

\* an unsuppressed event whose only key is a y-axis position has scheduled a
\* capture
C30_Witness ==
  /\ last.op = "relayout"
  /\ last.before = 0
  /\ arg = <<Entry(<<"yaxis2", "position">>, JNum("0.9"))>>
  /\ timers[selectedChartId] = 1

\* C31: after a click on a navigation button, the fetches settling, the
\* application leaves the loading screen.
C31_LeavesLoading == [](last.op = "nav" => <>(phase # "loading"))

\* C32: the series on screen were fetched for the selected chart, and a fetch
\* in flight is for the selected chart.
C32_SeriesOfSelectedChart ==
  /\ fetches \subseteq {selectedChartId}
  /\ last.op = "fetchDone" => last.key = selectedChartId
  /\ phase \in {"mounted", "ready"} => loaded \in Served(selectedChartId)

\* the second chart's fetch has completed after a switch from the first
C32_Witness ==
  /\ last.op = "fetchDone"
  /\ selectedChartId = CHARTS[2]
  /\ phase = "mounted"
  /\ savedZooms # EmptyObj

DocumentLoaded == last.op = "load" /\ PlotRendered(out.value)

\* C33: with a document loaded and on screen, the layout and the config
\* handed to the surface are those made from the document's own layout and
\* config (from none, for a document that has none).
C33_PropsOfLoadedDocument ==
  DocumentLoaded =>
    /\ finalLayout(out.value.layout) = finalLayout(Prop(arg, "layout"))
    /\ plotConfig(out.value.config) = plotConfig(Prop(arg, "config"))

\* C34: in the interpreter's output every axis entry with a range field has
\* autorange false.
C34_RangeMeansNoAutorange ==
  out.fn = "extractZoomFromRelayoutEvent" =>
    \A axis \in DOMAIN out.value :
       "range" \in DOMAIN out.value[axis] => out.value[axis]["autorange"] = JFalse

\* C35: with the drawing mode off there is no active line.
C35_NoActiveLineWhenOff == drawingMode = "off" => activeLine = JNull

\* C36: the suppression counter is 0 or 1 in every state; a handler that
\* arms it leaves it at 1 whatever it was.
C36_CounterZeroOrOne == suppressRelayoutSaves \in {0, 1}

\* a legend click has armed the counter and no relayout event has followed
C36_Witness ==
  /\ suppressRelayoutSaves = 1
  /\ last.op = "legend"
  /\ last.origin = ""
  /\ \E i \in LegendItems : i <= Len(graphDiv.data) /\ graphDiv.data[i] # DocTwo.data[i]

\* C37: the chart order holds catalog identities only, each at most once.
C37_OrderOfCatalogIds ==
  out.fn = "dashboard" =>
    /\ \A i \in 1..Len(Dash.order) : Dash.order[i] \in Catalog
    /\ NoDuplicates(Dash.order)

\* C38: after a cancel the order is the one that held when the edit session
\* began; after a save it is the order as edited.
C38_CancelRestores ==
  /\ last.op = "cancelEdit" => Dash.order = Dash.began
  /\ last.op = "saveEdit" => Dash.order = Dash.before

\* a session that had changed the order was cancelled
C38_Witness ==
  /\ last.op = "cancelEdit"
  /\ Dash.before # Dash.began
  /\ Len(Dash.before) # Len(Dash.began)
  /\ Dash.order = Dash.began

====
